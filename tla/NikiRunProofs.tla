----------------------------- MODULE NikiRunProofs -----------------------------
(***************************************************************************)
(* A launched program keeps its modules apart: every frame and every table *)
(* entry belongs to the module it is looked up in, for all programs that   *)
(* the compiler may have put together, however many modules they have.     *)
(*                                                                         *)
(* The registers outlive an execution, so this rests on what a register    *)
(* may hold: no function at all before the entry runs, since init chunks   *)
(* compute nothing, and after that only functions of the entry's module.   *)
(*                                                                         *)
(* Linking and launching follow.  The linker's verdict is right: any       *)
(* number of modules, any symbols, and any order in which a hash table     *)
(* yields them.  And the entry of a linked program finds the tables        *)
(* complete: each init chunk has filed each of its functions, and no later *)
(* one has taken the place of an earlier.                                  *)
(***************************************************************************)
EXTENDS NikiRun, NikiVMProofs

\* A function of the current module, and no init chunk.
OwnFunction(f) == f \notin Script /\ Image(f).module_id = module_id

MayHold(v) == isFunction(v) => phase \in {"entry", "done"} /\ OwnFunction(v.as)

RegistersOwned == \A i \in 0..(StackCapacity - 1) : MayHold(stack[i])

TablesOwned ==
  \A k \in DOMAIN globals : globals[k] \notin Script /\ Image(globals[k]).module_id = k.module_id

\* Init chunks run before the entry, and nothing else does.
FramesOwned ==
  status = "running" =>
    /\ phase \in {"init", "entry"}
    /\ \A i \in 1..Len(frames) :
         /\ Image(frames[i].fn).module_id = module_id
         /\ frames[i].fn \in Script <=> phase = "init"

RunInv ==
  /\ IInv
  /\ RegistersOwned
  /\ TablesOwned
  /\ FramesOwned
  /\ init_chunks \in Seq(Script)
  /\ next_init \in Nat \ {0}

-----------------------------------------------------------------------------
(***************************************************************************)
(* What an instruction can put into a register.                            *)
(***************************************************************************)
\* No operator computes an object.
LEMMA OutcomesAreNoObjects ==
  /\ \A op, l, r : \A o \in BinaryOutcomes(op, l, r) : o.type # "Object"
  /\ \A op, v : \A o \in UnaryOutcomes(op, v) : o.type # "Object"
<1>1. /\ \A b : makeBool(b).type # "Object" /\ \A i : makeInt(i).type # "Object"
      /\ \A x : makeFloat(x).type # "Object"
      /\ Error.type # "Object" /\ Trap.type # "Object"
  BY DEF makeBool, makeInt, makeFloat, Error, Trap
<1>2. \A o \in AnyInt : o.type # "Object"
  BY <1>1 DEF AnyInt
<1>3. \A i : \A o \in Word(i) : o.type # "Object"
  BY <1>1, <1>2 DEF Word
<1>4. \A op, i, j : \A o \in Divided(op, i, j) : o.type # "Object"
  BY <1>1, <1>2 DEF Divided
<1>5. \A i, j : \A o \in Rolled(i, j) : o.type # "Object"
  BY <1>1, <1>2 DEF Rolled
<1>6. \A op, i, j : \A o \in IntArithOutcomes(op, i, j) : o.type # "Object"
  BY <1>3, <1>4, <1>5 DEF IntArithOutcomes
<1>7. \A op, x, y : \A o \in FloatArithOutcomes(op, x, y) : o.type # "Object"
  BY <1>1 DEF FloatArithOutcomes
<1>8. \A op, l, r : \A o \in BinaryOutcomes(op, l, r) : o.type # "Object"
  BY <1>1, <1>2, <1>6, <1>7 DEF BinaryOutcomes
<1>9. \A op, v : \A o \in UnaryOutcomes(op, v) : o.type # "Object"
  BY <1>1, <1>3 DEF UnaryOutcomes
<1> QED
  BY <1>8, <1>9

\* The code of an init chunk files the module's functions and nothing else.
LEMMA ScriptInitializes ==
  ASSUME prog \in Program, NEW f \in Script
  PROVE  f \in Func /\ Initializes(Image(f), prog)
BY CompiledAssumption, ProgramAssumption DEF Image

\* The instruction is one of the running function's, which is an init chunk
\* exactly before the entry runs.
LEMMA RunningCode ==
  ASSUME RunInv, status = "running", currentFrame.ip =< Len(Code)
  PROVE  /\ currentFrame.fn \in Func
         /\ Image(currentFrame.fn).module_id = module_id
         /\ currentFrame.fn \in Script <=> phase = "init"
         /\ phase \in {"init", "entry"}
         /\ phase = "init"  => Ins.op \in {"DEFINE_GLOBAL", "RETURN"}
         /\ phase = "entry" => Ins.op \notin {"DEFINE_GLOBAL", "SET_GLOBAL"}
<1>1. /\ Len(frames) \in 1..Len(frames) /\ currentFrame.fn \in Func /\ currentFrame.ip \in Nat \ {0}
  BY RunningFrame DEF RunInv
<1>2. /\ Image(currentFrame.fn).module_id = module_id
      /\ currentFrame.fn \in Script <=> phase = "init"
      /\ phase \in {"init", "entry"}
  BY <1>1 DEF RunInv, FramesOwned, currentFrame
<1>3. currentFrame.ip \in DOMAIN Image(currentFrame.fn).code /\ Ins = Image(currentFrame.fn).code[currentFrame.ip]
  BY <1>1, ImagesWellFormed DEF RunInv, IInv, Code, CodeOf, Ins
<1>4. prog \in Program
  BY DEF RunInv, IInv
<1>5. phase = "init" => Ins.op \in {"DEFINE_GLOBAL", "RETURN"}
  BY <1>2, <1>3, <1>4, CompiledAssumption DEF Initializes, Image
<1>6. phase = "entry" => Ins.op \notin {"DEFINE_GLOBAL", "SET_GLOBAL"}
  BY <1>1, <1>2, <1>3, <1>4, CompiledAssumption DEF Computes, Image
<1> QED
  BY <1>1, <1>2, <1>5, <1>6

\* Every register the instruction names holds what it may.
LEMMA OperandsOwned ==
  ASSUME RunInv, status = "running", currentFrame.ip =< Len(Code),
         NEW r \in RegisterOperands(Ins), r \in Nat
  PROVE  MayHold(Reg(r))
<1>1. r < Slots(currentFrame.fn)
  BY OperandsAreValues DEF RunInv
<1>2. /\ currentFrame.base \in Nat /\ currentFrame.base + Slots(currentFrame.fn) =< StackCapacity
      /\ Slots(currentFrame.fn) \in Nat
  BY RunningFrame, ImagesWellFormed, SizeAssumption DEF RunInv, IInv
<1>3. currentFrame.base + r \in 0..(StackCapacity - 1)
  BY <1>1, <1>2, SizeAssumption
<1> QED
  BY <1>3 DEF Reg, RunInv, RegistersOwned

-----------------------------------------------------------------------------
(***************************************************************************)
(* The ways an instruction ends, in a launch.                              *)
(***************************************************************************)
\* The frames move on, and no table changes.
LEMMA JumpOwned ==
  ASSUME RunInv, status = "running", NEW n \in Nat \ {0}, JumpTo(n),
         UNCHANGED <<prog, module_id, status, launchVars>>
  PROVE  FramesOwned'
<1>1. frames \in Seq(CallFrame) /\ frames # <<>>
  BY DEF RunInv, IInv, TypeOK, Running
<1>2. Len(frames') = Len(frames) /\ \A i \in 1..Len(frames) : frames'[i].fn = frames[i].fn
  BY <1>1, MovedFrames DEF JumpTo
<1> QED
  BY <1>2 DEF RunInv, FramesOwned, Image, launchVars

\* What a register may hold, and what the tables hold, depends on nothing that
\* an instruction changes.
LEMMA KeepsOwners ==
  ASSUME RunInv, UNCHANGED <<prog, module_id, launchVars>>
  PROVE  /\ \A v : MayHold(v)' <=> MayHold(v)
         /\ UNCHANGED stack => RegistersOwned'
         /\ UNCHANGED globals => TablesOwned'
<1>1. \A v : MayHold(v)' <=> MayHold(v)
  BY DEF MayHold, OwnFunction, Image, launchVars
<1>2. UNCHANGED stack => RegistersOwned'
  BY <1>1 DEF RunInv, RegistersOwned
<1>3. UNCHANGED globals => TablesOwned'
  BY DEF RunInv, TablesOwned, Image
<1> QED
  BY <1>1, <1>2, <1>3

\* A register is written.
LEMMA SetRegOwned ==
  ASSUME RunInv, status = "running", UNCHANGED launchVars, NEW r, NEW v, MayHold(v), SetReg(r, v)
  PROVE  RegistersOwned' /\ TablesOwned' /\ FramesOwned'
<1>1. UNCHANGED <<prog, module_id, status, launchVars, globals>>
      /\ stack' = [stack EXCEPT ![currentFrame.base + r] = v]
  BY DEF SetReg
<1>2. currentFrame.ip + 1 \in Nat \ {0}
  BY RunningFrame DEF RunInv
<1>3. FramesOwned'
  BY <1>1, <1>2, JumpOwned DEF SetReg, NextIp
<1>4. TablesOwned' /\ MayHold(v)'
  BY <1>1, KeepsOwners
<1>5. \A i \in 0..(StackCapacity - 1) : stack'[i] = v \/ stack'[i] = stack[i]
  BY <1>1 DEF RunInv, IInv, TypeOK
<1>6. RegistersOwned'
  <2>1. \A w : MayHold(w) => MayHold(w)'
    BY <1>1, KeepsOwners
  <2> QED
    BY <1>4, <1>5, <2>1 DEF RunInv, RegistersOwned, MayHold
<1> QED
  BY <1>3, <1>4, <1>6

\* The loop is left.
LEMMA StopOwned ==
  ASSUME RunInv, UNCHANGED launchVars, NEW s \in {"error", "trapped"}, Stop(s)
  PROVE  RegistersOwned' /\ TablesOwned' /\ FramesOwned'
<1>1. UNCHANGED <<prog, module_id, launchVars, stack, globals>> /\ status' # "running"
  BY DEF Stop
<1> QED
  BY <1>1, KeepsOwners DEF FramesOwned

-----------------------------------------------------------------------------
(***************************************************************************)
(* The opcodes, in a launch.                                               *)
(***************************************************************************)
\* The opcodes that compute belong to the entry's code: they load a constant,
\* which is no function, move a register, or make a new value.
LEMMA ComputeOwned ==
  ASSUME RunInv, UNCHANGED launchVars, LoadConst \/ LoadLiteral \/ Move \/ Unary \/ Binary
  PROVE  RegistersOwned' /\ TablesOwned' /\ FramesOwned'
<1>1. status = "running" /\ currentFrame.ip =< Len(Code)
  BY DEF LoadConst, LoadLiteral, Move, Unary, Binary, At
<1>2. Ins.b \in Nat
  BY <1>1, InsTyped DEF RunInv
<1>3. \A v : ~isFunction(v) => MayHold(v)
  BY DEF MayHold
<1>4. CASE Fail
  BY <1>4, StopOwned DEF Fail
<1>5. CASE LoadConst /\ ~Fail
  <2>1. PICK v \in ConstantAt(Image(currentFrame.fn), Ins.b) : SetReg(Ins.a, v)
    BY <1>5 DEF LoadConst
  <2>2. Ins.op = "LOAD_CONST"
    BY <1>5 DEF LoadConst, At
  <2>3. currentFrame.fn \in Func \ Script
    BY <1>1, <2>2, RunningCode
  <2>4. ~isFunction(v)
    BY <2>1, <2>3, CompiledAssumption DEF RunInv, IInv, Computes, Image, ConstantAt
  <2> QED
    BY <1>1, <1>3, <2>1, <2>4, SetRegOwned
<1>6. CASE LoadLiteral
  <2>1. ~isFunction(Literal(Ins.op))
    BY DEF Literal, makeBool, makeNil, isFunction
  <2> QED
    BY <1>1, <1>3, <1>6, <2>1, SetRegOwned DEF LoadLiteral
<1>7. CASE Move
  <2>1. Ins.b \in RegisterOperands(Ins)
    BY <1>7 DEF Move, At, RegisterOperands, UnaryOp
  <2>2. MayHold(Reg(Ins.b))
    BY <1>1, <1>2, <2>1, OperandsOwned
  <2> QED
    BY <1>1, <1>7, <2>2, SetRegOwned DEF Move
<1>8. CASE Unary \/ Binary
  <2>1. PICK o : Finish(Ins.a, o) /\ o.type # "Object"
    BY <1>8, OutcomesAreNoObjects DEF Unary, Binary
  <2>2. MayHold(o)
    BY <1>3, <2>1 DEF isFunction
  <2>3. CASE Stop("trapped")
    BY <2>3, StopOwned
  <2> QED
    BY <1>1, <1>4, <2>1, <2>2, <2>3, SetRegOwned DEF Finish
<1> QED
  BY <1>4, <1>5, <1>6, <1>7, <1>8

\* The jumps and branches, and the end of the code.
LEMMA ControlOwned ==
  ASSUME RunInv, UNCHANGED launchVars, Jump \/ Loop \/ Branch \/ BadFetch
  PROVE  RegistersOwned' /\ TablesOwned' /\ FramesOwned'
<1>1. CASE Fail
  BY <1>1, StopOwned DEF Fail
<1>2. CASE ~Fail
  <2>1. status = "running" /\ \E n : Redirect(n)
    BY <1>2 DEF Jump, Loop, Branch, BadFetch, At
  <2>2. PICK n \in 1..(Len(Code) + 1) : JumpTo(n)
    BY <1>2, <2>1 DEF Redirect
  <2>3. UNCHANGED <<prog, stack, globals, module_id, status>>
    BY <1>2, <2>1 DEF Redirect
  <2>4. n \in Nat \ {0}
    BY <2>2
  <2>5. FramesOwned'
    BY <2>1, <2>2, <2>3, <2>4, JumpOwned
  <2> QED
    BY <2>3, <2>5, KeepsOwners
<1> QED
  BY <1>1, <1>2

\* OP_DEFINE_GLOBAL files a function of the running init chunk's own module.
LEMMA DefineOwned ==
  ASSUME RunInv, UNCHANGED launchVars, DefineGlobal
  PROVE  RegistersOwned' /\ TablesOwned' /\ FramesOwned'
<1>1. status = "running" /\ currentFrame.ip =< Len(Code) /\ Ins.op = "DEFINE_GLOBAL"
  BY DEF DefineGlobal, At
<1>2. currentFrame.fn \in Script /\ Image(currentFrame.fn).module_id = module_id
  BY <1>1, RunningCode
<1>3. CASE Fail
  BY <1>3, StopOwned DEF Fail
<1>4. CASE ~Fail
  <2>1. PICK v \in ConstantAt(Image(currentFrame.fn), Ins.a) : Define(Key(NameOf(v.as)), v.as)
    BY <1>4 DEF DefineGlobal
  <2>2. isFunction(v) /\ OwnFunction(v.as)
    <3> DEFINE image == Image(currentFrame.fn)
    <3>1. Initializes(image, prog)
      BY <1>2, ScriptInitializes DEF RunInv, IInv
    <3>2. v \in {image.constants[k] : k \in DOMAIN image.constants}
      BY <2>1 DEF ConstantAt
    <3>3. isFunction(v) /\ v.as \notin Script /\ prog.func[v.as].module_id = module_id
      <4>1. image.module_id = module_id
        BY <1>2
      <4> HIDE DEF image
      <4> QED
        BY <3>1, <3>2, <4>1 DEF Initializes
    <3> QED
      BY <3>3 DEF OwnFunction, Image
  <2>3. /\ globals' = Put(globals, Key(NameOf(v.as)), v.as)
        /\ NextIp
        /\ UNCHANGED <<prog, stack, module_id, status>>
    BY <1>4, <2>1, <2>2, CompiledAssumption DEF Define, isFunction
  <2>4. currentFrame.ip + 1 \in Nat \ {0}
    BY <1>1, RunningFrame DEF RunInv
  <2>5. FramesOwned'
    BY <1>1, <2>3, <2>4, JumpOwned DEF NextIp
  <2>6. TablesOwned'
    <3>1. SUFFICES ASSUME NEW k \in DOMAIN globals'
          PROVE  globals'[k] \notin Script /\ Image(globals'[k]).module_id = k.module_id
      BY <2>3 DEF TablesOwned, Image
    <3>2. CASE k = Key(NameOf(v.as))
      BY <2>2, <2>3, <3>2 DEF Put, Key, OwnFunction
    <3>3. CASE k # Key(NameOf(v.as))
      BY <2>3, <3>3 DEF Put, RunInv, TablesOwned
    <3> QED
      BY <3>2, <3>3
  <2> QED
    BY <2>3, <2>5, <2>6, KeepsOwners
<1> QED
  BY <1>3, <1>4

\* OP_GET_GLOBAL finds functions of the current module only, and no compiled
\* code sets a global.
LEMMA LookupOwned ==
  ASSUME RunInv, UNCHANGED launchVars, GetGlobal \/ SetGlobal
  PROVE  RegistersOwned' /\ TablesOwned' /\ FramesOwned'
<1>1. status = "running" /\ currentFrame.ip =< Len(Code) /\ Ins.op \in {"GET_GLOBAL", "SET_GLOBAL"}
  BY DEF GetGlobal, SetGlobal, At
<1>2. phase = "entry" /\ GetGlobal
  BY <1>1, RunningCode DEF SetGlobal, At
<1>3. CASE Fail
  BY <1>3, StopOwned DEF Fail
<1>4. CASE ~Fail
  <2>1. PICK n : \/ Key(n) \in DOMAIN globals /\ SetReg(Ins.a, makeObject(globals[Key(n)]))
                 \/ /\ Key(n) \in DOMAIN global_objects
                    /\ SetReg(Ins.a, makeObject(global_objects[Key(n)]))
    BY <1>2, <1>4 DEF GetGlobal
  <2>2. Key(n) \in DOMAIN globals => MayHold(makeObject(globals[Key(n)]))
    BY <1>2 DEF RunInv, TablesOwned, Key, MayHold, OwnFunction, makeObject
  <2>3. Key(n) \in DOMAIN global_objects => MayHold(makeObject(global_objects[Key(n)]))
    BY CompiledAssumption DEF RunInv, IInv, TypeOK, MayHold, isFunction, makeObject
  <2> QED
    BY <1>1, <2>1, <2>2, <2>3, SetRegOwned
<1> QED
  BY <1>3, <1>4

\* OP_CALL enters a function of the current module: its value came from a
\* register.
LEMMA CallOwned ==
  ASSUME RunInv, UNCHANGED launchVars, Call
  PROVE  RegistersOwned' /\ TablesOwned' /\ FramesOwned'
<1> DEFINE n      == Len(frames)
           callee == Reg(Ins.b).as
           moved  == [frames EXCEPT ![n].ip = currentFrame.ip + 1]
           new    == [fn |-> callee, ip |-> 1, base |-> currentFrame.base + Ins.c, out |-> Ins.a]
<1>1. status = "running" /\ currentFrame.ip =< Len(Code) /\ Ins.op = "CALL"
  BY DEF Call, At
<1>2. CASE Fail
  BY <1>2, StopOwned DEF Fail
<1>3. CASE ~Fail
  <2>1. /\ isFunction(Reg(Ins.b))
        /\ frames' = Append(moved, new)
        /\ UNCHANGED <<prog, stack, globals, module_id, status>>
    BY <1>3 DEF Call, currentFrame
  <2>2. phase = "entry"
    BY <1>1, RunningCode
  <2>3. Ins.b \in Nat /\ Ins.b \in RegisterOperands(Ins)
    BY <1>1, InsTyped DEF RunInv, RegisterOperands, UnaryOp, BinaryOp, IntArith, IntCompare,
                          FloatCompare, FloatArith, BitOps
  <2>4. callee \notin Script /\ Image(callee).module_id = module_id
    BY <1>1, <2>1, <2>3, OperandsOwned DEF MayHold, OwnFunction
  <2>5. frames \in Seq(CallFrame) /\ frames # <<>> /\ currentFrame.ip + 1 \in Nat \ {0} /\ n \in Nat
    BY <1>1, RunningFrame DEF RunInv, IInv, TypeOK, Running
  <2>6. moved \in Seq(CallFrame) /\ Len(moved) = n /\ \A i \in 1..n : moved[i].fn = frames[i].fn
    BY <2>5, MovedFrames
  <2>7. /\ Len(frames') = n + 1
        /\ \A i \in 1..n : frames'[i] = moved[i]
        /\ frames'[n + 1] = new
    <3> HIDE DEF moved, new
    <3> QED
      BY <2>1, <2>5, <2>6, AppendProperties
  <2>8. FramesOwned'
    <3>1. SUFFICES ASSUME NEW i \in 1..(n + 1)
          PROVE  Image(frames'[i].fn).module_id = module_id /\ frames'[i].fn \notin Script
      BY <2>1, <2>2, <2>7 DEF FramesOwned, Image, launchVars
    <3>2. CASE i = n + 1
      BY <2>4, <2>7, <3>2
    <3>3. CASE i # n + 1
      <4>1. i \in 1..n
        BY <2>5, <3>3
      <4>2. frames'[i].fn = frames[i].fn
        BY <2>6, <2>7, <4>1
      <4> QED
        BY <1>1, <2>2, <4>1, <4>2 DEF RunInv, FramesOwned
    <3> QED
      BY <3>2, <3>3
  <2> QED
    BY <2>1, <2>8, KeepsOwners
<1> QED
  BY <1>2, <1>3

\* OP_RETURN hands over register 0, and uncovers the frame below.
LEMMA ReturnOwned ==
  ASSUME RunInv, UNCHANGED launchVars, ReturnToHost \/ ReturnToCaller
  PROVE  RegistersOwned' /\ TablesOwned' /\ FramesOwned'
<1>1. status = "running" /\ UNCHANGED <<prog, globals, module_id>>
  BY DEF ReturnToHost, ReturnToCaller, At
<1>2. CASE ReturnToHost
  <2>1. status' = "ok" /\ UNCHANGED stack
    BY <1>2 DEF ReturnToHost
  <2> QED
    BY <1>1, <2>1, KeepsOwners DEF FramesOwned
<1>3. CASE ReturnToCaller
  <2> DEFINE n == Len(frames)
             j == frames[n - 1].base + currentFrame.out
  <2>1. /\ n \in Nat /\ n > 1 /\ frames \in Seq(CallFrame)
        /\ frames' = SubSeq(frames, 1, n - 1)
        /\ stack' = [stack EXCEPT ![j] = Reg(0)]
        /\ UNCHANGED status
    BY <1>1, <1>3, RunningFrame DEF ReturnToCaller, RunInv, IInv, TypeOK
  <2>2. Len(frames') = n - 1 /\ \A i \in 1..(n - 1) : frames'[i] = frames[i]
    BY <2>1, SubSeqProperties
  <2>3. \A i \in 1..(n - 1) : i \in 1..n
    BY <2>1
  <2>4. FramesOwned'
    BY <1>1, <2>1, <2>2, <2>3 DEF RunInv, FramesOwned, Image, launchVars
  <2>5. MayHold(Reg(0))
    <3>1. /\ currentFrame.fn \in Func /\ currentFrame.base \in Nat
          /\ currentFrame.base + Slots(currentFrame.fn) =< StackCapacity
      BY <1>1, RunningFrame DEF RunInv
    <3>2. Slots(currentFrame.fn) \in 1..StackCapacity
      BY <3>1, ImagesWellFormed DEF RunInv, IInv
    <3>3. currentFrame.base + 0 \in 0..(StackCapacity - 1)
      BY <3>1, <3>2, SizeAssumption
    <3> QED
      BY <3>3 DEF Reg, RunInv, RegistersOwned
  <2>6. \A i \in 0..(StackCapacity - 1) : MayHold(stack'[i])
    <3> HIDE DEF j
    <3> QED
      BY <2>1, <2>5 DEF RunInv, IInv, TypeOK, RegistersOwned
  <2>7. \A v : MayHold(v) => MayHold(v)'
    BY <1>1, KeepsOwners
  <2>8. RegistersOwned'
    BY <2>6, <2>7 DEF RegistersOwned, MayHold
  <2> QED
    BY <1>1, <2>4, <2>8, KeepsOwners
<1> QED
  BY <1>2, <1>3

\* Every instruction.
LEMMA StepOwned ==
  ASSUME RunInv, UNCHANGED launchVars, Step
  PROVE  RegistersOwned' /\ TablesOwned' /\ FramesOwned'
BY ComputeOwned, ControlOwned, DefineOwned, LookupOwned, CallOwned, ReturnOwned DEF Step

-----------------------------------------------------------------------------
(***************************************************************************)
(* The launcher.                                                           *)
(***************************************************************************)
\* The modules are the compiler's.
LEMMA ModulesTyped ==
  ASSUME RunInv
  PROVE  prog.modules \in Seq([module_id : Module, init_chunk : Script,
                                  exports : SUBSET NameId, exported_symbols : Seq(NameId)])
BY CompiledAssumption DEF RunInv, IInv, Linker!CompileModule

\* A new execution of an init chunk, or the first one of the entry: until then
\* no register holds a function.
LEMMA ExecuteOwned ==
  ASSUME RunInv, phase = "init", NEW fn \in Func, Execute(fn),
         fn \in Script => phase' = "init", fn \notin Script => phase' = "entry"
  PROVE  RegistersOwned' /\ TablesOwned' /\ FramesOwned'
<1>1. /\ UNCHANGED <<prog, stack, globals>>
      /\ module_id' = Image(fn).module_id
      /\ \/ status' # "running"
         \/ frames' = <<[fn |-> fn, ip |-> 1, base |-> 0, out |-> 0]>>
  BY DEF Execute
<1>2. \A i \in 0..(StackCapacity - 1) : ~isFunction(stack[i])
  BY DEF RunInv, RegistersOwned, MayHold
<1>3. RegistersOwned'
  BY <1>1, <1>2 DEF RegistersOwned, MayHold
<1>4. TablesOwned'
  BY <1>1 DEF RunInv, TablesOwned, Image
<1>5. FramesOwned'
  <2>1. SUFFICES ASSUME status' = "running" PROVE FramesOwned'
    BY DEF FramesOwned
  <2>2. Len(frames') = 1 /\ frames'[1].fn = fn
    BY <1>1, <2>1
  <2>3. \A i \in 1..1 : i = 1
    OBVIOUS
  <2>4. Image(fn)' = Image(fn)
    BY <1>1 DEF Image
  <2> QED
    BY <1>1, <2>2, <2>3, <2>4 DEF FramesOwned
<1> QED
  BY <1>3, <1>4, <1>5

\* The launcher's steps that leave the VM alone, and the linker's.
LEMMA VerdictOwned ==
  ASSUME RunInv, UNCHANGED vars,
         \/ UNCHANGED phase
         \/ phase \in {"link", "init"} /\ phase' \in {"init", "done"} /\ status # "running"
         \/ phase = "entry" /\ phase' = "done" /\ status # "running"
  PROVE  RegistersOwned' /\ TablesOwned' /\ FramesOwned'
<1>1. TablesOwned'
  BY DEF RunInv, TablesOwned, Image, vars
<1>2. FramesOwned'
  BY DEF RunInv, FramesOwned, Image, vars
<1>3. \A i \in 0..(StackCapacity - 1) :
        isFunction(stack[i]) => phase' \in {"entry", "done"} /\ OwnFunction(stack[i].as)
  BY DEF RunInv, RegistersOwned, MayHold
<1>4. RegistersOwned'
  BY <1>3 DEF RegistersOwned, MayHold, OwnFunction, Image, vars
<1> QED
  BY <1>1, <1>2, <1>4

\* A new run satisfies the invariant.
LEMMA RunInitEstablishes == RunInit => RunInv
<1> SUFFICES ASSUME RunInit PROVE RunInv
  OBVIOUS
<1>1. IInv
  BY InitEstablishes DEF RunInit
<1>2. ~isFunction(makeNil)
  BY DEF isFunction, makeNil
<1>3. RegistersOwned /\ TablesOwned /\ FramesOwned
  BY <1>2 DEF RunInit, Init, RegistersOwned, MayHold, TablesOwned, FramesOwned
<1>4. init_chunks \in Seq(Script) /\ next_init \in Nat \ {0}
  BY DEF RunInit, LaunchInit
<1> QED
  BY <1>1, <1>3, <1>4 DEF RunInv

\* Every step of the run keeps it.
LEMMA RunNextKeeps == RunInv /\ [RunNext]_runVars => RunInv'
<1> SUFFICES ASSUME RunInv, [RunNext]_runVars PROVE RunInv'
  OBVIOUS
<1> USE DEF RunInv
<1>1. CASE UNCHANGED <<vars, launchVars>>
  <2>1. IInv'
    BY <1>1, NextKeeps
  <2> QED
    BY <1>1, <2>1, VerdictOwned DEF launchVars
<1>2. CASE Launch
  <2>1. IInv'
    BY <1>2, NextKeeps DEF Launch
  <2>2. phase = "link" /\ phase' = "init" /\ UNCHANGED <<vars, next_init>>
    BY <1>2 DEF Launch, Begin
  <2>3. init_chunks' \in Seq(Script)
    <3> DEFINE S == [module_id : Module, init_chunk : Script, exports : SUBSET NameId,
                     exported_symbols : Seq(NameId)]
    <3>1. init_chunks' = [i \in DOMAIN prog.modules |-> prog.modules[i].init_chunk]
      BY <1>2 DEF Launch, Begin
    <3>2. prog.modules \in Seq(S) /\ \A m \in S : m.init_chunk \in Script
      BY ModulesTyped
    <3>3. /\ DOMAIN prog.modules = 1..Len(prog.modules) /\ Len(prog.modules) \in Nat
          /\ \A i \in DOMAIN prog.modules : prog.modules[i].init_chunk \in Script
      <4> HIDE DEF S
      <4> QED
        BY <3>2, LenProperties
    <3>4. init_chunks' \in [1..Len(prog.modules) -> Script]
      BY <3>1, <3>3
    <3> QED
      BY <3>3, <3>4, SeqDef
  <2> QED
    BY <2>1, <2>2, <2>3, VerdictOwned DEF FramesOwned
<1>3. CASE GiveUp \/ InitFailed \/ EntryMissing \/ EntryReturned
  <2>1. /\ UNCHANGED <<vars, init_chunks, next_init>>
        /\ phase' = "done"
        /\ phase \in {"link", "init", "entry"} /\ status # "running"
    BY <1>3 DEF GiveUp, InitFailed, EntryMissing, EntryReturned, End, FramesOwned, Succeeded
  <2>2. IInv'
    BY <2>1, NextKeeps
  <2> QED
    BY <2>1, <2>2, VerdictOwned
<1>4. CASE RunInitChunk
  <2>1. next_init \in 1..Len(init_chunks)
    BY <1>4 DEF RunInitChunk
  <2>2. init_chunks[next_init] \in Script
    BY <2>1
  <2>3. HostTurn /\ Execute(init_chunks[next_init]) /\ phase = "init" /\ UNCHANGED <<phase, init_chunks>>
    BY <1>4 DEF RunInitChunk, executeChunk
  <2>4. IInv'
    BY <2>2, <2>3, ExecuteKeeps, ProgramAssumption
  <2>5. RegistersOwned' /\ TablesOwned' /\ FramesOwned'
    BY <2>2, <2>3, ExecuteOwned, ProgramAssumption
  <2>6. next_init' \in Nat \ {0}
    BY <1>4 DEF RunInitChunk
  <2> QED
    BY <2>3, <2>4, <2>5, <2>6
<1>5. CASE CallEntry
  <2>1. /\ HostTurn /\ Execute(globals[entry]) /\ phase = "init" /\ phase' = "entry"
        /\ entry \in DOMAIN globals /\ UNCHANGED <<init_chunks, next_init>>
    BY <1>5 DEF CallEntry, Succeeded, HostTurn
  <2>2. globals[entry] \in Func /\ globals[entry] \notin Script
    BY <2>1 DEF IInv, TypeOK, TablesOwned
  <2>3. IInv'
    BY <2>1, <2>2, ExecuteKeeps
  <2>4. RegistersOwned' /\ TablesOwned' /\ FramesOwned'
    BY <2>1, <2>2, ExecuteOwned
  <2> QED
    BY <2>1, <2>3, <2>4
<1>6. CASE Step /\ UNCHANGED launchVars
  <2>1. IInv'
    BY <1>6, NextKeeps DEF Next
  <2>2. RegistersOwned' /\ TablesOwned' /\ FramesOwned'
    BY <1>6, StepOwned
  <2> QED
    BY <1>6, <2>1, <2>2 DEF launchVars
<1>7. CASE Link
  BY <1>1, <1>7 DEF Link
<1> QED
  BY <1>1, <1>2, <1>3, <1>4, <1>5, <1>6, <1>7 DEF RunNext, LaunchStep, runVars

-----------------------------------------------------------------------------
(***************************************************************************)
(* The theorems.                                                           *)
(***************************************************************************)
\* From the first link step to the end, every register, table entry and frame
\* belongs to the module that looks it up.
THEOREM RunInvariance == RunSpec => []RunInv
<1>1. RunInit => RunInv
  BY RunInitEstablishes
<1>2. RunInv /\ [RunNext]_runVars => RunInv'
  BY RunNextKeeps
<1> QED
  BY <1>1, <1>2, PTL DEF RunSpec

\* OP_CALL does not switch the module that names are resolved in, and need
\* not: every frame of an execution, at any depth of calls, is of the module
\* whose chunk the host started, for all linked programs.
THEOREM FramesKeepToTheirModule == RunSpec => []FramesOfOneModule
<1>1. RunInv => FramesOfOneModule
  BY DEF RunInv, FramesOwned, FramesOfOneModule
<1> QED
  BY <1>1, RunInvariance, PTL

\* A function is filed under the module it was compiled in, although
\* OP_DEFINE_GLOBAL takes the module from the running chunk.
THEOREM TablesKeepToTheirModule == RunSpec => []GlobalsOwned
<1>1. RunInv => GlobalsOwned
  BY DEF RunInv, TablesOwned, GlobalsOwned
<1> QED
  BY <1>1, RunInvariance, PTL

\* A launch keeps to the VM's own invariant: the host calls of the launcher
\* are among those the VM was proved for.
THEOREM LaunchKeepsVMInvariant == RunSpec => [](TypeOK /\ WindowsInBounds /\ CallChain)
<1>1. RunInv => TypeOK /\ WindowsInBounds /\ CallChain
  BY DEF RunInv, IInv
<1> QED
  BY <1>1, RunInvariance, PTL

-----------------------------------------------------------------------------
(***************************************************************************)
(* The linker.  The pass keeps two sets of names and two counters.  The    *)
(* invariant says what they tell of the definitions met so far, SeenDefs:  *)
(* that they are all distinct as long as there is no diagnostic, and which *)
(* of them is the entry.  At the end these are all the definitions.        *)
(***************************************************************************)
\* The symbols of the module under way.
Exports == prog.modules[at].exports
Symbols == prog.modules[at].exported_symbols

\* The definitions met so far.
IsSeen(d) ==
  \/ d.module < at
  \/ d.module = at /\ d.place = 0 /\ d.name \notin functions
  \/ d.module = at /\ d.place # 0 /\ d.place =< Len(Symbols) - Len(records)

SeenDefs == {d \in Linker!Definitions : IsSeen(d)}

\* What is left of the module under way is a part of its symbols.
PlaceInv ==
  /\ at \in Nat \ {0}
  /\ at \in DOMAIN prog.modules \/ (prog.modules = <<>> /\ functions = {} /\ records = <<>>)
  /\ at \in DOMAIN prog.modules =>
       /\ functions \subseteq Exports
       /\ records \in Seq(NameId) /\ Len(records) =< Len(Symbols)
       /\ \A j \in 1..Len(records) : records[j] = Symbols[Len(Symbols) - Len(records) + j]

TallyInv ==
  /\ duplicates \in Nat /\ entry_count \in Nat
  /\ global_names = {d.name : d \in SeenDefs}
  /\ \A i, n : <<i, n>> \in per_module => n \in global_names
  /\ duplicates = 0 <=> \A d, e \in SeenDefs : d.name = e.name => d = e
  /\ duplicates = 0 => entry_count =< 1
  /\ entry_count = 0 <=> \A d \in SeenDefs : d.name # EntryName
  /\ entry_count # 0 =>
       \E d \in SeenDefs :
         /\ d.name = EntryName
         /\ entry = [module_id |-> prog.modules[d.module].module_id, name_id |-> EntryName]

EndInv ==
  /\ linked \in {"linking", "linked", "failed"}
  /\ linked # "linking" =>
       /\ functions = {} /\ records = <<>> /\ at >= Len(prog.modules)
       /\ linked = "linked" <=> duplicates = 0 /\ entry_count = 1

LinkInv == prog \in Program /\ PlaceInv /\ TallyInv /\ EndInv

-----------------------------------------------------------------------------
(***************************************************************************)
(* The definitions of a project.                                           *)
(***************************************************************************)
\* The modules, one by one.
LEMMA ModuleTyped ==
  ASSUME prog \in Program
  PROVE  /\ Len(prog.modules) \in Nat
         /\ DOMAIN prog.modules = 1..Len(prog.modules)
         /\ prog.modules = <<>> <=> Len(prog.modules) = 0
         /\ \A i \in DOMAIN prog.modules :
              /\ prog.modules[i].exports \subseteq NameId
              /\ prog.modules[i].exported_symbols \in Seq(NameId)
              /\ Len(prog.modules[i].exported_symbols) \in Nat
              /\ DOMAIN prog.modules[i].exported_symbols = 1..Len(prog.modules[i].exported_symbols)
<1> DEFINE S == [module_id : Module, init_chunk : Script, exports : SUBSET NameId,
                 exported_symbols : Seq(NameId)]
<1>1. prog.modules \in Seq(S)
  BY CompiledAssumption DEF Linker!CompileModule
<1>2. \A m \in S : /\ m.exports \subseteq NameId
                   /\ m.exported_symbols \in Seq(NameId)
                   /\ Len(m.exported_symbols) \in Nat
                   /\ DOMAIN m.exported_symbols = 1..Len(m.exported_symbols)
  BY LenProperties
<1> HIDE DEF S
<1>3. /\ Len(prog.modules) \in Nat /\ DOMAIN prog.modules = 1..Len(prog.modules)
      /\ \A i \in DOMAIN prog.modules : prog.modules[i] \in S
  BY <1>1, LenProperties
<1>4. prog.modules = <<>> <=> Len(prog.modules) = 0
  BY <1>1, EmptySeq
<1> QED
  BY <1>2, <1>3, <1>4

\* A definition is a function of a module, or a place in its records.
LEMMA DefinitionIs ==
  \A d : d \in Linker!Definitions <=>
    \E i \in DOMAIN prog.modules :
      \/ \E n \in prog.modules[i].exports : d = [module |-> i, place |-> 0, name |-> n]
      \/ \E k \in DOMAIN prog.modules[i].exported_symbols :
           d = [module |-> i, place |-> k, name |-> prog.modules[i].exported_symbols[k]]
BY DEF Linker!Definitions

\* One more symbol met, the definition d0.
LEMMA VisitKeeps ==
  ASSUME TallyInv, UNCHANGED prog,
         NEW d0, d0 \notin SeenDefs, d0.module = at,
         SeenDefs' = SeenDefs \cup {d0},
         Linker!Visit(d0.name)
  PROVE  TallyInv'
<1> DEFINE n == d0.name
<1>1. /\ duplicates' = duplicates + Linker!Seen(n)
      /\ per_module' = per_module \cup {<<prog.modules[at].module_id, n>>}
      /\ global_names' = global_names \cup {n}
      /\ n = EntryName =>
           /\ entry' = [module_id |-> prog.modules[at].module_id, name_id |-> n]
           /\ entry_count' = entry_count + 1
      /\ n # EntryName => UNCHANGED <<entry, entry_count>>
  BY DEF Linker!Visit
<1>2. duplicates \in Nat /\ entry_count \in Nat /\ Linker!Seen(n) \in Nat
  BY DEF TallyInv, Linker!Seen
<1>3. Linker!Seen(n) = 0 <=> n \notin global_names
  BY DEF Linker!Seen, TallyInv
<1>4. n \in global_names <=> \E d \in SeenDefs : d.name = n
  BY DEF TallyInv
<1>5. duplicates' \in Nat /\ entry_count' \in Nat
  BY <1>1, <1>2
<1>6. global_names' = {d.name : d \in SeenDefs'}
  BY <1>1 DEF TallyInv
<1>7. \A i, m : <<i, m>> \in per_module' => m \in global_names'
  BY <1>1 DEF TallyInv
<1>8. duplicates' = 0 <=> duplicates = 0 /\ n \notin global_names
  BY <1>1, <1>2, <1>3
<1>9. duplicates' = 0 <=> \A d, e \in SeenDefs' : d.name = e.name => d = e
  BY <1>4, <1>8 DEF TallyInv
<1>10. entry_count' = 0 <=> \A d \in SeenDefs' : d.name # EntryName
  BY <1>1, <1>2 DEF TallyInv
<1>11. duplicates' = 0 => entry_count' =< 1
  <2>1. CASE n = EntryName
    BY <1>1, <1>2, <1>4, <1>8, <2>1 DEF TallyInv
  <2>2. CASE n # EntryName
    BY <1>1, <1>8, <2>2 DEF TallyInv
  <2> QED
    BY <2>1, <2>2
<1>12. entry_count' # 0 =>
         \E d \in SeenDefs' :
           /\ d.name = EntryName
           /\ entry' = [module_id |-> prog.modules[d.module].module_id, name_id |-> EntryName]
  <2>1. CASE n = EntryName
    BY <1>1, <2>1
  <2>2. CASE n # EntryName
    BY <1>1, <2>2 DEF TallyInv
  <2> QED
    BY <2>1, <2>2
<1> QED
  BY <1>5, <1>6, <1>7, <1>9, <1>10, <1>11, <1>12 DEF TallyInv

-----------------------------------------------------------------------------
(***************************************************************************)
(* The linker's steps.                                                     *)
(***************************************************************************)
\* A function of the module under way, whichever the hash table yields.
LEMMA VisitFunctionKeeps ==
  ASSUME LinkInv, UNCHANGED prog, Linker!VisitFunction
  PROVE  LinkInv'
<1>1. PICK n \in functions : functions' = functions \ {n} /\ Linker!Visit(n)
  BY DEF Linker!VisitFunction
<1>2. UNCHANGED <<prog, at, records, linked>> /\ linked = "linking"
  BY <1>1 DEF Linker!VisitFunction, Linker!Visit
<1>3. at \in DOMAIN prog.modules /\ n \in Exports
  BY DEF LinkInv, PlaceInv
<1> DEFINE d0 == [module |-> at, place |-> 0, name |-> n]
<1>4. d0 \in Linker!Definitions /\ ~IsSeen(d0)
  <2>1. d0 \in Linker!Definitions
    BY <1>3, DefinitionIs DEF Exports
  <2>2. ~IsSeen(d0)
    BY <1>1 DEF IsSeen, LinkInv, PlaceInv
  <2> QED
    BY <2>1, <2>2
<1>5. \A d \in Linker!Definitions : IsSeen(d)' <=> IsSeen(d) \/ d = d0
  <2>1. SUFFICES ASSUME NEW d \in Linker!Definitions
        PROVE  IsSeen(d)' <=> IsSeen(d) \/ d = d0
    OBVIOUS
  <2>2. d = d0 <=> d.module = at /\ d.place = 0 /\ d.name = n
    BY DefinitionIs
  <2> HIDE DEF d0
  <2> QED
    BY <1>1, <1>2, <2>2 DEF IsSeen, Symbols
<1>6. Linker!Definitions' = Linker!Definitions
  BY <1>2 DEF Linker!Definitions
<1>7. SeenDefs' = SeenDefs \cup {d0} /\ d0 \notin SeenDefs
  <2> HIDE DEF d0
  <2> QED
    BY <1>4, <1>5, <1>6 DEF SeenDefs
<1>8. TallyInv'
  BY <1>1, <1>2, <1>7, VisitKeeps DEF LinkInv
<1>9. PlaceInv'
  BY <1>1, <1>2, <1>3 DEF LinkInv, PlaceInv, Exports, Symbols
<1> QED
  BY <1>2, <1>8, <1>9 DEF LinkInv, EndInv

\* The next of its other exported symbols.
LEMMA VisitRecordKeeps ==
  ASSUME LinkInv, UNCHANGED prog, Linker!VisitRecord
  PROVE  LinkInv'
<1>1. /\ functions = {} /\ records # <<>> /\ linked = "linking"
      /\ Linker!Visit(Head(records)) /\ records' = Tail(records)
      /\ UNCHANGED <<prog, at, functions, linked>>
  BY DEF Linker!VisitRecord, Linker!Visit
<1>2. /\ at \in DOMAIN prog.modules /\ at \in Nat
      /\ records \in Seq(NameId) /\ Len(records) =< Len(Symbols)
      /\ \A j \in 1..Len(records) : records[j] = Symbols[Len(Symbols) - Len(records) + j]
  BY <1>1 DEF LinkInv, PlaceInv
<1>3. Len(Symbols) \in Nat /\ DOMAIN Symbols = 1..Len(Symbols)
  BY <1>2, ModuleTyped DEF LinkInv, Symbols
<1> DEFINE k  == Len(Symbols) - Len(records) + 1
           d0 == [module |-> at, place |-> k, name |-> Head(records)]
<1>4. /\ Len(records) \in Nat \ {0} /\ records' \in Seq(NameId)
      /\ Len(records') = Len(records) - 1
      /\ \A j \in 1..Len(records') : records'[j] = records[j + 1]
      /\ Head(records) = records[1]
  BY <1>1, <1>2, EmptySeq, HeadTailProperties
<1>5. k \in DOMAIN Symbols /\ k \in Nat \ {0} /\ Head(records) = Symbols[k]
  BY <1>2, <1>3, <1>4
<1>6. d0 \in Linker!Definitions /\ ~IsSeen(d0)
  <2>1. d0 \in Linker!Definitions
    <3> HIDE DEF k
    <3> QED
      BY <1>2, <1>5, DefinitionIs DEF Symbols
  <2>2. ~IsSeen(d0)
    BY <1>2, <1>3, <1>4, <1>5 DEF IsSeen
  <2> QED
    BY <2>1, <2>2
<1>7. \A d \in Linker!Definitions : IsSeen(d)' <=> IsSeen(d) \/ d = d0
  <2>1. SUFFICES ASSUME NEW d \in Linker!Definitions
        PROVE  IsSeen(d)' <=> IsSeen(d) \/ d = d0
    OBVIOUS
  <2>2. d.module = at => d.place = 0 \/ (d.place \in DOMAIN Symbols /\ d.name = Symbols[d.place])
    BY DefinitionIs DEF Symbols
  <2>3. d = d0 <=> d.module = at /\ d.place = k
    <3> HIDE DEF k
    <3>1. d = [module |-> d.module, place |-> d.place, name |-> d.name]
      BY DefinitionIs
    <3> QED
      BY <1>5, <2>2, <3>1
  <2>4. d.module = at => d.place \in 0..Len(Symbols)
    BY <1>3, <2>2
  <2>5. Symbols' = Symbols
    BY <1>1 DEF Symbols
  <2>6. d.module = at /\ d.place # 0 =>
          ((d.place =< Len(Symbols) - Len(records')) <=>
             (d.place =< Len(Symbols) - Len(records) \/ d.place = k))
    BY <1>3, <1>4, <2>4
  <2> HIDE DEF k, d0
  <2> QED
    BY <1>1, <1>5, <2>3, <2>5, <2>6 DEF IsSeen
<1>8. Linker!Definitions' = Linker!Definitions
  BY <1>1 DEF Linker!Definitions
<1>9. SeenDefs' = SeenDefs \cup {d0} /\ d0 \notin SeenDefs
  <2> HIDE DEF d0
  <2> QED
    BY <1>6, <1>7, <1>8 DEF SeenDefs
<1>10. TallyInv'
  BY <1>1, <1>9, VisitKeeps DEF LinkInv
<1>11. PlaceInv'
  <2>1. /\ Len(records') =< Len(Symbols)
        /\ \A j \in 1..Len(records') : records'[j] = Symbols[Len(Symbols) - Len(records') + j]
    <3>1. ASSUME NEW j \in 1..Len(records')
          PROVE  records'[j] = Symbols[Len(Symbols) - Len(records') + j]
      <4>1. j + 1 \in 1..Len(records) /\ records'[j] = records[j + 1]
        BY <1>4
      <4>2. records[j + 1] = Symbols[Len(Symbols) - Len(records) + (j + 1)]
        BY <1>2, <4>1
      <4>3. Len(Symbols) - Len(records) + (j + 1) = Len(Symbols) - Len(records') + j
        <5> DEFINE x == Len(Symbols)
                   y == Len(records)
                   z == Len(records')
        <5>1. x \in Int /\ y \in Int /\ z \in Int /\ j \in Int /\ z = y - 1
          BY <1>3, <1>4
        <5> HIDE DEF x, y, z
        <5>2. x - y + (j + 1) = x - z + j
          BY <5>1
        <5> QED
          BY <5>2 DEF x, y, z
      <4> QED
        BY <4>1, <4>2, <4>3
    <3>2. Len(records') =< Len(Symbols)
      <4> DEFINE x == Len(Symbols)
                 y == Len(records)
                 z == Len(records')
      <4>1. x \in Int /\ y \in Int /\ z \in Int /\ y =< x /\ z = y - 1
        BY <1>2, <1>3, <1>4
      <4> HIDE DEF x, y, z
      <4>2. z =< x
        BY <4>1
      <4> QED
        BY <4>2 DEF x, z
    <3> QED
      BY <3>1, <3>2
  <2> QED
    BY <1>1, <1>2, <1>4, <2>1 DEF LinkInv, PlaceInv, Exports, Symbols
<1> QED
  BY <1>1, <1>10, <1>11 DEF LinkInv, EndInv

\* Nothing of the next module is met yet, and all of this one is.
LEMMA NextModuleKeeps ==
  ASSUME LinkInv, UNCHANGED prog, Linker!NextModule
  PROVE  LinkInv'
<1>1. /\ functions = {} /\ records = <<>> /\ at < Len(prog.modules) /\ linked = "linking"
      /\ at' = at + 1
      /\ functions' = prog.modules[at + 1].exports
      /\ records' = prog.modules[at + 1].exported_symbols
      /\ UNCHANGED <<prog, per_module, global_names, duplicates, entry, entry_count, linked>>
  BY DEF Linker!NextModule
<1>2. /\ at \in DOMAIN prog.modules /\ at + 1 \in DOMAIN prog.modules /\ at \in Nat \ {0}
      /\ Len(Symbols) \in Nat /\ DOMAIN Symbols = 1..Len(Symbols)
      /\ functions' \subseteq NameId
      /\ records' \in Seq(NameId) /\ Len(records') \in Nat
      /\ DOMAIN records' = 1..Len(records')
  BY <1>1, ModuleTyped DEF LinkInv, PlaceInv, Symbols
<1>3. Symbols' = records' /\ Exports' = functions' /\ Len(records) = 0
  BY <1>1 DEF Symbols, Exports
<1>4. \A d \in Linker!Definitions : IsSeen(d)' <=> IsSeen(d)
  <2>1. SUFFICES ASSUME NEW d \in Linker!Definitions PROVE IsSeen(d)' <=> IsSeen(d)
    OBVIOUS
  <2>2. PICK i \in DOMAIN prog.modules :
          \/ \E n \in prog.modules[i].exports : d = [module |-> i, place |-> 0, name |-> n]
          \/ \E k \in DOMAIN prog.modules[i].exported_symbols :
               d = [module |-> i, place |-> k, name |-> prog.modules[i].exported_symbols[k]]
    BY DefinitionIs
  <2>3. i \in Nat /\ d.module = i /\ DOMAIN prog.modules[i].exported_symbols \subseteq Nat \ {0}
    BY <2>2, ModuleTyped DEF LinkInv
  <2>4. CASE i < at
    <3>1. d.module < at /\ d.module < at'
      BY <1>1, <1>2, <2>3, <2>4
    <3> QED
      BY <3>1 DEF IsSeen
  <2>5. CASE i = at
    <3>1. IsSeen(d)'
      <4>1. d.module < at'
        BY <1>1, <1>2, <2>3, <2>5
      <4> QED
        BY <4>1 DEF IsSeen
    <3>2. d.place = 0 \/ (d.place # 0 /\ d.place =< Len(Symbols) - Len(records))
      BY <1>2, <1>3, <2>2, <2>5 DEF Symbols
    <3>3. IsSeen(d)
      BY <1>1, <2>3, <2>5, <3>2 DEF IsSeen
    <3> QED
      BY <3>1, <3>3
  <2>6. CASE i = at + 1
    <3>1. ~IsSeen(d)
      BY <1>2, <2>3, <2>6 DEF IsSeen
    <3>2. (d.place = 0 /\ d.name \in functions') \/ d.place \in 1..Len(records')
      BY <1>1, <1>2, <2>2, <2>6
    <3>3. ~IsSeen(d)'
      BY <1>1, <1>2, <1>3, <2>3, <2>6, <3>2 DEF IsSeen
    <3> QED
      BY <3>1, <3>3
  <2>7. CASE i > at + 1
    BY <1>1, <1>2, <2>3, <2>7 DEF IsSeen
  <2> QED
    BY <1>2, <2>3, <2>4, <2>5, <2>6, <2>7
<1>5. SeenDefs' = SeenDefs
  <2>1. Linker!Definitions' = Linker!Definitions
    BY <1>1 DEF Linker!Definitions
  <2> QED
    BY <1>4, <2>1 DEF SeenDefs
<1>6. TallyInv'
  BY <1>1, <1>5 DEF LinkInv, TallyInv
<1>7. PlaceInv'
  BY <1>1, <1>2, <1>3 DEF PlaceInv
<1> QED
  BY <1>1, <1>6, <1>7 DEF LinkInv, EndInv

\* The verdict itself.
LEMMA ConcludeKeeps ==
  ASSUME LinkInv, UNCHANGED prog, Linker!Conclude
  PROVE  LinkInv'
<1>1. /\ functions = {} /\ records = <<>> /\ at >= Len(prog.modules)
      /\ linked' = IF duplicates = 0 /\ entry_count = 1 THEN "linked" ELSE "failed"
      /\ UNCHANGED <<prog, at, functions, records, per_module, global_names,
                     duplicates, entry, entry_count>>
  BY DEF Linker!Conclude
<1>2. SeenDefs' = SeenDefs
  BY <1>1 DEF SeenDefs, IsSeen, Symbols, Linker!Definitions
<1>3. TallyInv'
  BY <1>1, <1>2 DEF LinkInv, TallyInv
<1>4. PlaceInv'
  BY <1>1 DEF LinkInv, PlaceInv, Exports, Symbols
<1>5. EndInv'
  BY <1>1 DEF EndInv
<1> QED
  BY <1>1, <1>3, <1>4, <1>5 DEF LinkInv

-----------------------------------------------------------------------------
(***************************************************************************)
(* The run around the linker.                                              *)
(***************************************************************************)
\* No step of the VM or its host changes the program.
LEMMA ProgramKept ==
  ASSUME Step \/ \E f : Execute(f)
  PROVE  UNCHANGED prog
<1>1. ASSUME NEW r, NEW v, SetReg(r, v) PROVE UNCHANGED prog
  BY <1>1 DEF SetReg
<1>2. ASSUME NEW s, Stop(s) PROVE UNCHANGED prog
  BY <1>2 DEF Stop
<1>3. ASSUME NEW r, NEW o, Finish(r, o) PROVE UNCHANGED prog
  BY <1>1, <1>2, <1>3 DEF Finish, Fail
<1>4. ASSUME NEW n, Redirect(n) PROVE UNCHANGED prog
  BY <1>2, <1>4 DEF Redirect, Fail
<1>5. ASSUME NEW k, NEW o, Define(k, o) PROVE UNCHANGED prog
  BY <1>2, <1>5 DEF Define, Fail
<1>6. CASE LoadConst \/ LoadLiteral \/ Move \/ Unary \/ Binary
  BY <1>1, <1>2, <1>3, <1>6 DEF LoadConst, LoadLiteral, Move, Unary, Binary, Fail
<1>7. CASE Jump \/ Loop \/ Branch \/ BadFetch
  BY <1>2, <1>4, <1>7 DEF Jump, Loop, Branch, BadFetch, Fail
<1>8. CASE DefineGlobal \/ GetGlobal \/ SetGlobal
  BY <1>1, <1>2, <1>5, <1>8 DEF DefineGlobal, GetGlobal, SetGlobal, Fail
<1>9. CASE Call \/ ReturnToHost \/ ReturnToCaller
  BY <1>2, <1>9 DEF Call, ReturnToHost, ReturnToCaller, Fail
<1>10. CASE \E f : Execute(f)
  BY <1>10 DEF Execute
<1> QED
  BY <1>6, <1>7, <1>8, <1>9, <1>10 DEF Step

\* The pass starts with no symbol met.
LEMMA LinkInitEstablishes == RunInit => LinkInv
<1> SUFFICES ASSUME RunInit PROVE LinkInv
  OBVIOUS
<1>1. prog \in Program /\ Linker!LinkInit
  BY DEF RunInit, Init
<1>2. PlaceInv
  <2>1. at = 1
    BY <1>1 DEF Linker!LinkInit
  <2>2. CASE prog.modules = <<>>
    <3>1. functions = {} /\ records = <<>> /\ DOMAIN prog.modules = {}
      BY <1>1, <2>2 DEF Linker!LinkInit
    <3> QED
      BY <2>1, <2>2, <3>1 DEF PlaceInv
  <2>3. CASE prog.modules # <<>>
    <3>1. 1 \in DOMAIN prog.modules /\ functions = Exports /\ records = Symbols
      BY <1>1, <2>1, <2>3, ModuleTyped DEF Linker!LinkInit, Exports, Symbols
    <3>2. Symbols \in Seq(NameId) /\ Len(Symbols) \in Nat
      BY <1>1, <2>1, <3>1, ModuleTyped DEF Symbols
    <3>3. \A j \in 1..Len(records) : Len(Symbols) - Len(records) + j = j
      BY <3>1, <3>2
    <3> QED
      BY <2>1, <3>1, <3>2, <3>3 DEF PlaceInv
  <2> QED
    BY <2>2, <2>3
<1>3. SeenDefs = {}
  <2>1. SUFFICES ASSUME NEW d \in Linker!Definitions PROVE ~IsSeen(d)
    BY DEF SeenDefs
  <2>2. PICK i \in DOMAIN prog.modules :
          \/ \E n \in prog.modules[i].exports : d = [module |-> i, place |-> 0, name |-> n]
          \/ \E k \in DOMAIN prog.modules[i].exported_symbols :
               d = [module |-> i, place |-> k, name |-> prog.modules[i].exported_symbols[k]]
    BY DefinitionIs
  <2>3. /\ i \in Nat \ {0} /\ d.module = i /\ prog.modules # <<>>
        /\ DOMAIN prog.modules[i].exported_symbols = 1..Len(prog.modules[i].exported_symbols)
        /\ Len(prog.modules[i].exported_symbols) \in Nat
    BY <1>1, <2>2, ModuleTyped
  <2>4. at = 1 /\ functions = prog.modules[1].exports /\ records = prog.modules[1].exported_symbols
    BY <1>1, <2>3 DEF Linker!LinkInit
  <2>5. CASE i # at
    <3>1. ~(d.module < at) /\ d.module # at
      BY <2>3, <2>4, <2>5
    <3> QED
      BY <3>1 DEF IsSeen
  <2>6. CASE i = at
    <3>1. (d.place = 0 /\ d.name \in functions) \/ d.place \in 1..Len(records)
      BY <2>2, <2>3, <2>4, <2>6
    <3>2. Symbols = records /\ Len(records) \in Nat
      BY <2>3, <2>4, <2>6 DEF Symbols
    <3> QED
      BY <2>3, <2>4, <2>6, <3>1, <3>2 DEF IsSeen
  <2> QED
    BY <2>5, <2>6
<1>4. TallyInv
  BY <1>1, <1>3 DEF TallyInv, Linker!LinkInit
<1>5. EndInv
  BY <1>1 DEF EndInv, Linker!LinkInit
<1> QED
  BY <1>1, <1>2, <1>4, <1>5 DEF LinkInv

\* Every step of the run keeps what the pass knows.
LEMMA LinkNextKeeps == LinkInv /\ [RunNext]_runVars => LinkInv'
<1> SUFFICES ASSUME LinkInv, [RunNext]_runVars PROVE LinkInv'
  OBVIOUS
<1>1. CASE UNCHANGED <<prog, passVars>>
  <2>1. SeenDefs' = SeenDefs
    BY <1>1 DEF SeenDefs, IsSeen, Symbols, Linker!Definitions, passVars
  <2>2. TallyInv'
    BY <1>1, <2>1 DEF LinkInv, TallyInv, passVars
  <2>3. PlaceInv' /\ EndInv'
    BY <1>1 DEF LinkInv, PlaceInv, EndInv, Exports, Symbols, passVars
  <2> QED
    BY <1>1, <2>2, <2>3 DEF LinkInv
<1>2. CASE Link
  <2>1. UNCHANGED prog /\ Linker!LinkStep
    BY <1>2 DEF Link, vars
  <2> QED
    BY <2>1, VisitFunctionKeeps, VisitRecordKeeps, NextModuleKeeps, ConcludeKeeps DEF Linker!LinkStep
<1>3. CASE Launch \/ GiveUp
  BY <1>1, <1>3 DEF Launch, GiveUp, vars
<1>4. CASE LaunchStep /\ UNCHANGED passVars
  <2>1. UNCHANGED prog
    <3>1. CASE Step \/ \E f : Execute(f)
      BY <3>1, ProgramKept
    <3>2. CASE UNCHANGED vars
      BY <3>2 DEF vars
    <3> QED
      BY <1>4, <3>1, <3>2 DEF LaunchStep, RunInitChunk, executeChunk, InitFailed, CallEntry,
                              EntryMissing, EntryReturned
  <2> QED
    BY <1>1, <1>4, <2>1
<1> QED
  BY <1>1, <1>2, <1>3, <1>4 DEF RunNext, runVars, vars

-----------------------------------------------------------------------------
(***************************************************************************)
(* The verdict.                                                            *)
(***************************************************************************)
\* Once the pass is over, every definition was met.
LEMMA AllSeen ==
  ASSUME LinkInv, linked # "linking"
  PROVE  SeenDefs = Linker!Definitions
<1>1. functions = {} /\ records = <<>> /\ at >= Len(prog.modules)
  BY DEF LinkInv, EndInv
<1>2. SUFFICES ASSUME NEW d \in Linker!Definitions PROVE IsSeen(d)
  BY DEF SeenDefs
<1>3. PICK i \in DOMAIN prog.modules :
        \/ \E n \in prog.modules[i].exports : d = [module |-> i, place |-> 0, name |-> n]
        \/ \E k \in DOMAIN prog.modules[i].exported_symbols :
             d = [module |-> i, place |-> k, name |-> prog.modules[i].exported_symbols[k]]
  BY DefinitionIs
<1>4. /\ i \in 1..Len(prog.modules) /\ Len(prog.modules) \in Nat /\ d.module = i
      /\ DOMAIN prog.modules[i].exported_symbols = 1..Len(prog.modules[i].exported_symbols)
      /\ Len(prog.modules[i].exported_symbols) \in Nat
  BY <1>3, ModuleTyped DEF LinkInv
<1>5. at \in Nat /\ (i < at \/ i = at)
  BY <1>1, <1>4 DEF LinkInv, PlaceInv
<1>6. CASE i < at
  BY <1>4, <1>6 DEF IsSeen
<1>7. CASE i = at
  <2>1. Len(records) = 0
    BY <1>1
  <2>2. d.place = 0 \/ (d.place # 0 /\ d.place =< Len(Symbols) - Len(records))
    BY <1>3, <1>4, <1>7, <2>1 DEF Symbols
  <2> QED
    BY <1>1, <1>4, <1>7, <2>2 DEF IsSeen
<1> QED
  BY <1>5, <1>6, <1>7

\* The verdict follows from what the pass knows.
LEMMA LinkInvImplies == LinkInv => LinkVerdict
<1> SUFFICES ASSUME LinkInv, linked # "linking"
             PROVE  /\ (linked = "linked") <=>
                         Linker!NamesDistinct /\ \E d \in Linker!Definitions : d.name = EntryName
                    /\ linked = "linked" =>
                         \E d \in Linker!Definitions :
                           d.name = EntryName
                             /\ entry = [module_id |-> prog.modules[d.module].module_id,
                                        name_id |-> EntryName]
  BY DEF LinkVerdict, Linker!LinkVerdict
<1>1. SeenDefs = Linker!Definitions
  BY AllSeen
<1>2. linked = "linked" <=> duplicates = 0 /\ entry_count = 1
  BY DEF LinkInv, EndInv
<1>3. duplicates = 0 <=> Linker!NamesDistinct
  BY <1>1 DEF LinkInv, TallyInv, Linker!NamesDistinct
<1>4. duplicates = 0 => (entry_count = 1 <=> \E d \in Linker!Definitions : d.name = EntryName)
  BY <1>1 DEF LinkInv, TallyInv
<1> QED
  BY <1>1, <1>2, <1>3, <1>4 DEF LinkInv, TallyInv

\* A project is linked exactly when every name is defined once, over all its
\* modules, and the entry's is among them; the entry handed to the launcher is
\* then that one definition.
THEOREM LinkerIsRight == RunSpec => []LinkVerdict
<1>1. LinkInv => LinkVerdict
  BY LinkInvImplies
<1>2. RunInit => LinkInv
  BY LinkInitEstablishes
<1>3. LinkInv /\ [RunNext]_runVars => LinkInv'
  BY LinkNextKeeps
<1> QED
  BY <1>1, <1>2, <1>3, PTL DEF RunSpec

-----------------------------------------------------------------------------
(***************************************************************************)
(* The launcher.  The invariant follows it through the init chunks: those  *)
(* before the last one started have filed everything, the last one what    *)
(* lies before its ip, or everything once it has returned.  That nothing   *)
(* filed is lost is the linker's doing: names are distinct over modules.   *)
(***************************************************************************)
\* The init chunk of a module and what it defines.
InitImage(i) == Image(prog.modules[i].init_chunk)

Filed(i, o) ==
  LET k == [module_id |-> prog.modules[i].module_id, name_id |-> Image(o).name_id]
  IN  k \in DOMAIN globals /\ globals[k] = o

\* What the instructions of the init chunk before ip define is filed.
FiledBefore(i, ip) ==
  \A j \in DOMAIN InitImage(i).code :
    j < ip /\ InitImage(i).code[j].op = "DEFINE_GLOBAL" =>
      \A v \in ConstantAt(InitImage(i), InitImage(i).code[j].a) : Filed(i, v.as)

AllFiled(i) == \A o \in DefinedBy(i) : Filed(i, o)

\* A launch is of a linked program, and of the init chunks of its modules, on a
\* VM that has run nothing.
Launched ==
  /\ phase = "link" => next_init = 1 /\ status = "idle"
  /\ phase \in {"link", "init", "entry"} => outcome = "none"
  /\ phase \in {"init", "entry"} =>
       /\ linked = "linked"
       /\ Len(init_chunks) = Len(prog.modules)
       /\ \A i \in DOMAIN prog.modules : init_chunks[i] = prog.modules[i].init_chunk

\* How far the init chunks are.
Filing ==
  phase = "init" =>
    /\ \A i \in DOMAIN prog.modules : i < next_init - 1 => AllFiled(i)
    /\ status = "idle" => next_init = 1
    /\ status = "ok" => \A i \in DOMAIN prog.modules : i = next_init - 1 => AllFiled(i)
    /\ status = "running" =>
         /\ Len(frames) = 1
         /\ next_init - 1 \in DOMAIN prog.modules
         /\ frames[1].fn = prog.modules[next_init - 1].init_chunk
         /\ FiledBefore(next_init - 1, frames[1].ip)

LaunchInv ==
  /\ RunInv
  /\ LinkInv
  /\ Launched
  /\ Filing
  /\ EntryAfterAllInits
  /\ EntryFoundIfFunction

-----------------------------------------------------------------------------
(***************************************************************************)
(* What the init chunks define.                                            *)
(***************************************************************************)
\* Every function of a module is defined by an instruction before the last.
LEMMA InitChunks ==
  ASSUME prog \in Program, NEW i \in DOMAIN prog.modules
  PROVE  /\ prog.modules[i].init_chunk \in Script
         /\ prog.modules[i].init_chunk \in Func
         /\ InitImage(i).module_id = prog.modules[i].module_id
         /\ \A o \in DefinedBy(i) :
              /\ o \in Func
              /\ Image(o).name_id \in prog.modules[i].exports
              /\ \E j \in DOMAIN InitImage(i).code :
                   /\ InitImage(i).code[j].op = "DEFINE_GLOBAL"
                   /\ \E v \in ConstantAt(InitImage(i), InitImage(i).code[j].a) : v.as = o
         /\ \A n \in prog.modules[i].exports : \E o \in DefinedBy(i) : Image(o).name_id = n
         /\ \A o, q \in DefinedBy(i) : Image(o).name_id = Image(q).name_id => o = q
         /\ \A a : \A v \in ConstantAt(InitImage(i), a) : v.as \in DefinedBy(i)
<1> DEFINE S == [module_id : Module, init_chunk : Script, exports : SUBSET NameId,
                 exported_symbols : Seq(NameId)]
           image == InitImage(i)
<1>1. prog.modules[i].init_chunk \in Script
  <2>1. prog.modules \in Seq(S) /\ \A m \in S : m.init_chunk \in Script
    BY CompiledAssumption DEF Linker!CompileModule
  <2> HIDE DEF S
  <2> QED
    BY <2>1
<1>2. prog.modules[i].init_chunk \in Func
  BY <1>1, ProgramAssumption
<1>3. /\ image.module_id = prog.modules[i].module_id
      /\ prog.modules[i].exports = {Image(image.constants[k].as).name_id : k \in DOMAIN image.constants}
      /\ \A k, l \in DOMAIN image.constants :
           Image(image.constants[k].as).name_id = Image(image.constants[l].as).name_id =>
             image.constants[k] = image.constants[l]
  BY CompiledAssumption DEF Exported, InitImage, Image
<1>4. \A k \in DOMAIN image.constants :
        /\ isFunction(image.constants[k])
        /\ \E j \in DOMAIN image.code : image.code[j].op = "DEFINE_GLOBAL" /\ image.code[j].a = k - 1
  <2>1. Initializes(image, prog)
    BY <1>1, ScriptInitializes DEF InitImage
  <2> HIDE DEF image
  <2> QED
    BY <2>1 DEF Initializes
<1>5. DefinedBy(i) = {image.constants[k].as : k \in DOMAIN image.constants}
  BY <1>4 DEF DefinedBy, InitImage, isFunction
<1>6. DOMAIN image.constants \subseteq Nat
  BY <1>2, ImagesWellFormed DEF InitImage
<1>7. ASSUME NEW o \in DefinedBy(i)
      PROVE  /\ o \in Func
             /\ Image(o).name_id \in prog.modules[i].exports
             /\ \E j \in DOMAIN image.code :
                  /\ image.code[j].op = "DEFINE_GLOBAL"
                  /\ \E v \in ConstantAt(image, image.code[j].a) : v.as = o
  <2>1. PICK k \in DOMAIN image.constants : o = image.constants[k].as
    BY <1>5
  <2>2. PICK j \in DOMAIN image.code : image.code[j].op = "DEFINE_GLOBAL" /\ image.code[j].a = k - 1
    BY <1>4
  <2>3. image.constants[k] \in ConstantAt(image, image.code[j].a)
    <3>1. k \in {image.code[j].a + 1} \cap DOMAIN image.constants
      BY <1>6, <2>2
    <3> HIDE DEF image
    <3> QED
      BY <3>1 DEF ConstantAt
  <2> HIDE DEF image
  <2> QED
    BY <1>3, <1>4, <2>1, <2>2, <2>3 DEF isFunction
<1>8. \A n \in prog.modules[i].exports : \E o \in DefinedBy(i) : Image(o).name_id = n
  <2> HIDE DEF image
  <2> QED
    BY <1>3, <1>5
<1>9. \A o, q \in DefinedBy(i) : Image(o).name_id = Image(q).name_id => o = q
  <2> HIDE DEF image
  <2> QED
    BY <1>3, <1>5
<1>10. \A a : \A v \in ConstantAt(image, a) : v.as \in DefinedBy(i)
  <2> HIDE DEF image
  <2> QED
    BY <1>5 DEF ConstantAt
<1> QED
  BY <1>1, <1>2, <1>3, <1>7, <1>8, <1>9, <1>10

\* In a linked program two functions of one name are one function.
LEMMA NamesApart ==
  ASSUME LinkInv, linked = "linked",
         NEW i \in DOMAIN prog.modules, NEW j \in DOMAIN prog.modules,
         NEW o \in DefinedBy(i), NEW q \in DefinedBy(j),
         Image(o).name_id = Image(q).name_id
  PROVE  o = q
<1> DEFINE n == Image(o).name_id
<1>1. prog \in Program
  BY DEF LinkInv
<1>2. n \in prog.modules[i].exports /\ n \in prog.modules[j].exports
  BY <1>1, InitChunks
<1>3. /\ [module |-> i, place |-> 0, name |-> n] \in Linker!Definitions
      /\ [module |-> j, place |-> 0, name |-> n] \in Linker!Definitions
  BY <1>2, DefinitionIs
<1>4. Linker!NamesDistinct
  BY LinkInvImplies DEF LinkVerdict, Linker!LinkVerdict
<1>5. [module |-> i, place |-> 0, name |-> n] = [module |-> j, place |-> 0, name |-> n]
  <2> HIDE DEF n
  <2> QED
    BY <1>3, <1>4 DEF Linker!NamesDistinct
<1>6. i = j
  BY <1>5
<1> QED
  BY <1>1, <1>6, InitChunks

-----------------------------------------------------------------------------
(***************************************************************************)
(* What is filed stays filed.                                              *)
(***************************************************************************)
\* Everything of this depends on the program and the tables alone.
LEMMA FiledFrozen ==
  ASSUME UNCHANGED prog
  PROVE  /\ \A i : InitImage(i)' = InitImage(i) /\ DefinedBy(i)' = DefinedBy(i)
         /\ \A f : Image(f)' = Image(f)
         /\ UNCHANGED globals =>
              /\ \A i : AllFiled(i)' <=> AllFiled(i)
              /\ \A i, ip : FiledBefore(i, ip)' <=> FiledBefore(i, ip)
<1>1. \A f : Image(f)' = Image(f)
  BY DEF Image
<1>2. \A i : InitImage(i)' = InitImage(i) /\ DefinedBy(i)' = DefinedBy(i)
  BY DEF InitImage, DefinedBy, Image
<1>3. ASSUME UNCHANGED globals, NEW i
      PROVE  \A o : Filed(i, o)' <=> Filed(i, o)
  BY <1>3 DEF Filed, Image
<1>4. ASSUME UNCHANGED globals, NEW i
      PROVE  AllFiled(i)' <=> AllFiled(i)
  BY <1>2, <1>3, <1>4 DEF AllFiled
<1>5. ASSUME UNCHANGED globals, NEW i, NEW ip
      PROVE  FiledBefore(i, ip)' <=> FiledBefore(i, ip)
  BY <1>2, <1>3, <1>5 DEF FiledBefore, ConstantAt
<1> QED
  BY <1>1, <1>2, <1>4, <1>5

\* Filing a function of some module displaces none of another name, and so no
\* other one at all.
LEMMA FiledStays ==
  ASSUME LinkInv, linked = "linked", UNCHANGED prog,
         NEW i \in DOMAIN prog.modules, NEW o \in DefinedBy(i), Filed(i, o),
         NEW j \in DOMAIN prog.modules, NEW q \in DefinedBy(j),
         globals' = Put(globals, [module_id |-> prog.modules[j].module_id,
                                  name_id |-> Image(q).name_id], q)
  PROVE  Filed(i, o)'
<1> DEFINE ko == [module_id |-> prog.modules[i].module_id, name_id |-> Image(o).name_id]
           kq == [module_id |-> prog.modules[j].module_id, name_id |-> Image(q).name_id]
<1>1. ko \in DOMAIN globals /\ globals[ko] = o
  BY DEF Filed
<1>2. ko = kq => o = q
  <2>1. ko = kq => Image(o).name_id = Image(q).name_id
    OBVIOUS
  <2> QED
    BY <2>1, NamesApart
<1>3. ko \in DOMAIN globals' /\ globals'[ko] = o
  <2> HIDE DEF ko, kq
  <2>1. globals' = Put(globals, kq, q)
    BY DEF kq
  <2> QED
    BY <1>1, <1>2, <2>1 DEF Put
<1>4. Image(o)' = Image(o)
  BY DEF Image
<1> QED
  BY <1>3, <1>4 DEF Filed

\* An instruction other than OP_DEFINE_GLOBAL and OP_SET_GLOBAL leaves the
\* tables alone.
LEMMA GlobalsKept ==
  ASSUME Step, ~DefineGlobal, ~SetGlobal
  PROVE  UNCHANGED globals
<1>1. ASSUME NEW r, NEW v, SetReg(r, v) PROVE UNCHANGED globals
  BY <1>1 DEF SetReg
<1>2. ASSUME NEW s, Stop(s) PROVE UNCHANGED globals
  BY <1>2 DEF Stop
<1>3. ASSUME NEW r, NEW o, Finish(r, o) PROVE UNCHANGED globals
  BY <1>1, <1>2, <1>3 DEF Finish, Fail
<1>4. ASSUME NEW n, Redirect(n) PROVE UNCHANGED globals
  BY <1>2, <1>4 DEF Redirect, Fail
<1>5. CASE LoadConst \/ LoadLiteral \/ Move \/ Unary \/ Binary
  BY <1>1, <1>2, <1>3, <1>5 DEF LoadConst, LoadLiteral, Move, Unary, Binary, Fail
<1>6. CASE Jump \/ Loop \/ Branch \/ BadFetch
  BY <1>2, <1>4, <1>6 DEF Jump, Loop, Branch, BadFetch, Fail
<1>7. CASE GetGlobal
  BY <1>1, <1>2, <1>7 DEF GetGlobal, Fail
<1>8. CASE Call \/ ReturnToHost \/ ReturnToCaller
  BY <1>2, <1>8 DEF Call, ReturnToHost, ReturnToCaller, Fail
<1> QED
  BY <1>5, <1>6, <1>7, <1>8 DEF Step

-----------------------------------------------------------------------------
(***************************************************************************)
(* The steps of an init chunk.                                             *)
(***************************************************************************)
\* Where a running init chunk is.
LEMMA InitRunning ==
  ASSUME LaunchInv, phase = "init", status = "running"
  PROVE  /\ next_init - 1 \in DOMAIN prog.modules /\ next_init \in Nat
         /\ Len(frames) = 1 /\ currentFrame = frames[1]
         /\ currentFrame.fn = prog.modules[next_init - 1].init_chunk
         /\ Image(currentFrame.fn) = InitImage(next_init - 1)
         /\ Code = InitImage(next_init - 1).code
         /\ module_id = prog.modules[next_init - 1].module_id
         /\ currentFrame.ip \in Nat \ {0}
         /\ DOMAIN Code = 1..Len(Code) /\ Len(Code) \in Nat
         /\ linked = "linked" /\ prog \in Program
<1>1. /\ next_init - 1 \in DOMAIN prog.modules /\ Len(frames) = 1
      /\ frames[1].fn = prog.modules[next_init - 1].init_chunk
  BY DEF LaunchInv, Filing
<1>2. linked = "linked" /\ prog \in Program /\ next_init \in Nat
  BY DEF LaunchInv, Launched, LinkInv, RunInv
<1>3. currentFrame.ip \in Nat \ {0} /\ currentFrame.fn \in Func /\ currentFrame = frames[1]
  BY <1>1, RunningFrame DEF LaunchInv, RunInv, currentFrame
<1>4. Image(currentFrame.fn).module_id = module_id
  BY <1>1, <1>3 DEF LaunchInv, RunInv, FramesOwned
<1>5. InitImage(next_init - 1).module_id = prog.modules[next_init - 1].module_id
  BY <1>1, <1>2, InitChunks
<1>6. Image(currentFrame.fn) = InitImage(next_init - 1)
  BY <1>1, <1>3 DEF InitImage
<1>7. CodeOf(currentFrame.fn) \in Seq(Instr)
  BY <1>2, <1>3, ImagesWellFormed
<1>8. DOMAIN Code = 1..Len(Code) /\ Len(Code) \in Nat
  BY <1>7, LenProperties DEF Code
<1> QED
  BY <1>1, <1>2, <1>3, <1>4, <1>5, <1>6, <1>8 DEF Code, CodeOf

\* A failure leaves the tables as they are.
LEMMA StopFiling ==
  ASSUME LaunchInv, phase = "init", NEW s \in {"error", "trapped"}, Stop(s), UNCHANGED launchVars
  PROVE  Filing'
<1>1. UNCHANGED <<prog, globals, phase, next_init>> /\ status' = s
  BY DEF Stop, launchVars
<1> QED
  BY <1>1, FiledFrozen DEF LaunchInv, Filing

\* One instruction further: what lay before it stays filed, and what it defines
\* is filed by now.
LEMMA FiledNext ==
  ASSUME UNCHANGED prog, prog \in Program,
         NEW n \in DOMAIN prog.modules, NEW ip \in Nat,
         DOMAIN InitImage(n).code \subseteq Nat,
         FiledBefore(n, ip),
         \A o \in DefinedBy(n) : Filed(n, o) => Filed(n, o)',
         ip \in DOMAIN InitImage(n).code =>
           \A v \in ConstantAt(InitImage(n), InitImage(n).code[ip].a) : Filed(n, v.as)'
  PROVE  FiledBefore(n, ip + 1)'
<1>1. InitImage(n)' = InitImage(n)
  BY FiledFrozen
<1>2. ASSUME NEW j \in DOMAIN InitImage(n).code, j < ip + 1,
             InitImage(n).code[j].op = "DEFINE_GLOBAL",
             NEW w \in ConstantAt(InitImage(n), InitImage(n).code[j].a)
      PROVE  Filed(n, w.as)'
  <2>1. j \in Nat
    OBVIOUS
  <2>2. CASE j = ip
    BY <1>2, <2>2
  <2>3. CASE j < ip
    <3>1. Filed(n, w.as)
      BY <1>2, <2>3 DEF FiledBefore
    <3>2. w.as \in DefinedBy(n)
      BY InitChunks
    <3> QED
      BY <3>1, <3>2
  <2> QED
    BY <1>2, <2>1, <2>2, <2>3
<1>3. ASSUME NEW a PROVE ConstantAt(InitImage(n), a)' = ConstantAt(InitImage(n), a)
  BY <1>1 DEF ConstantAt
<1> QED
  BY <1>1, <1>2, <1>3 DEF FiledBefore

\* OP_DEFINE_GLOBAL files one function more and displaces none.
LEMMA DefineFiling ==
  ASSUME LaunchInv, phase = "init", DefineGlobal, ~Fail, UNCHANGED launchVars
  PROVE  Filing'
<1>1. status = "running" /\ currentFrame.ip =< Len(Code) /\ Ins.op = "DEFINE_GLOBAL"
  BY DEF DefineGlobal, At
<1>2. PICK n : n = next_init - 1
  OBVIOUS
<1>3. PICK ip : ip = frames[1].ip
  OBVIOUS
<1>4. /\ n \in DOMAIN prog.modules /\ next_init \in Nat /\ ip \in Nat
      /\ linked = "linked" /\ LinkInv /\ prog \in Program
      /\ Len(frames) = 1 /\ currentFrame = frames[1]
      /\ frames[1].fn = prog.modules[n].init_chunk
      /\ Image(currentFrame.fn) = InitImage(n)
      /\ Code = InitImage(n).code /\ DOMAIN Code = 1..Len(Code)
      /\ module_id = prog.modules[n].module_id
      /\ Ins = InitImage(n).code[ip]
  BY <1>1, <1>2, <1>3, InitRunning DEF LaunchInv, Ins
<1>5. FiledBefore(n, ip)
  BY <1>1, <1>2, <1>3 DEF LaunchInv, Filing
<1>6. PICK v \in ConstantAt(InitImage(n), Ins.a) : Define(Key(NameOf(v.as)), v.as)
  BY <1>4 DEF DefineGlobal
<1>7. v.as \in DefinedBy(n) /\ v.as \in Func
  BY <1>4, <1>6, InitChunks
<1>8. Key(NameOf(v.as)) = [module_id |-> prog.modules[n].module_id, name_id |-> Image(v.as).name_id]
  BY <1>4, <1>7 DEF Key, NameOf
<1>9. /\ globals' = Put(globals, Key(NameOf(v.as)), v.as)
      /\ NextIp
      /\ UNCHANGED <<prog, status, phase, next_init>>
  BY <1>6, <1>7, CompiledAssumption DEF Define, launchVars
<1>10. \A i \in DOMAIN prog.modules : \A o \in DefinedBy(i) : Filed(i, o) => Filed(i, o)'
  BY <1>4, <1>7, <1>8, <1>9, FiledStays
<1>11. Filed(n, v.as)'
  <2>1. Image(v.as)' = Image(v.as)
    BY <1>9, FiledFrozen
  <2> QED
    BY <1>8, <1>9, <2>1 DEF Filed, Put
<1>12. \A i \in DOMAIN prog.modules : AllFiled(i) => AllFiled(i)'
  BY <1>9, <1>10, FiledFrozen DEF AllFiled
<1>13. Len(frames') = 1 /\ frames'[1].fn = frames[1].fn /\ frames'[1].ip = ip + 1
  <2>1. frames \in Seq(CallFrame) /\ frames # <<>> /\ currentFrame.ip + 1 \in Nat \ {0}
    BY <1>1, RunningFrame DEF LaunchInv, RunInv, IInv, TypeOK, Running
  <2> QED
    BY <1>3, <1>4, <1>9, <2>1, MovedFrames DEF NextIp, JumpTo
<1>14. FiledBefore(n, ip + 1)'
  <2>1. \A w \in ConstantAt(InitImage(n), InitImage(n).code[ip].a) : w = v
    BY <1>4, <1>6 DEF ConstantAt
  <2>2. DOMAIN InitImage(n).code \subseteq Nat
    BY <1>4
  <2> QED
    BY <1>4, <1>5, <1>9, <1>10, <1>11, <2>1, <2>2, FiledNext
<1>15. next_init' - 1 = n
  BY <1>2, <1>9
<1> QED
  BY <1>1, <1>2, <1>4, <1>9, <1>12, <1>13, <1>14, <1>15 DEF LaunchInv, Filing

\* OP_RETURN is the last instruction: all before it has been carried out.
LEMMA ReturnFiling ==
  ASSUME LaunchInv, phase = "init", ReturnToHost, UNCHANGED launchVars
  PROVE  Filing'
<1>1. status = "running" /\ currentFrame.ip =< Len(Code) /\ Ins.op = "RETURN"
  BY DEF ReturnToHost, At
<1>2. status' = "ok" /\ UNCHANGED <<prog, globals, phase, next_init>>
  BY DEF ReturnToHost, launchVars
<1>3. PICK n : n = next_init - 1
  OBVIOUS
<1>4. /\ n \in DOMAIN prog.modules /\ prog \in Program
      /\ Code = InitImage(n).code /\ DOMAIN Code = 1..Len(Code) /\ Len(Code) \in Nat
      /\ frames[1].ip \in Nat \ {0} /\ frames[1].ip = currentFrame.ip
  BY <1>1, <1>3, InitRunning
<1>5. \A j \in DOMAIN Code : Code[j].op = "RETURN" => j = Len(Code)
  <2>1. prog.modules[n].init_chunk \in Script
    BY <1>4, InitChunks
  <2>2. Initializes(InitImage(n), prog)
    BY <1>4, <2>1, ScriptInitializes DEF InitImage
  <2> QED
    BY <1>4, <2>2 DEF Initializes
<1>6. currentFrame.ip = Len(Code)
  BY <1>1, <1>4, <1>5 DEF Ins
<1>7. AllFiled(n)
  <2>1. SUFFICES ASSUME NEW o \in DefinedBy(n) PROVE Filed(n, o)
    BY DEF AllFiled
  <2>2. PICK j \in DOMAIN InitImage(n).code :
          /\ InitImage(n).code[j].op = "DEFINE_GLOBAL"
          /\ \E v \in ConstantAt(InitImage(n), InitImage(n).code[j].a) : v.as = o
    BY <1>4, InitChunks
  <2>3. j < frames[1].ip
    <3>1. j # Len(Code)
      BY <1>1, <1>4, <1>6, <2>2 DEF Ins
    <3> QED
      BY <1>4, <1>6, <3>1
  <2>4. FiledBefore(n, frames[1].ip)
    BY <1>1, <1>3 DEF LaunchInv, Filing
  <2> QED
    BY <2>2, <2>3, <2>4 DEF FiledBefore
<1>8. \A i \in DOMAIN prog.modules : i < next_init - 1 => AllFiled(i)
  BY DEF LaunchInv, Filing
<1> QED
  BY <1>2, <1>3, <1>7, <1>8, FiledFrozen DEF Filing

\* An init chunk has no other instructions.
LEMMA StepFiling ==
  ASSUME LaunchInv, phase = "init", Step, UNCHANGED launchVars
  PROVE  Filing'
<1>1. CASE Fail
  BY <1>1, StopFiling DEF Fail
<1>2. CASE ~Fail
  <2>1. status = "running" /\ currentFrame.ip =< Len(Code)
    BY <1>2 DEF Step, LoadConst, LoadLiteral, Move, Unary, Binary, Jump, Loop, Branch, DefineGlobal,
                GetGlobal, SetGlobal, Call, ReturnToHost, ReturnToCaller, BadFetch, At
  <2>2. Ins.op \in {"DEFINE_GLOBAL", "RETURN"}
    BY <2>1, RunningCode DEF LaunchInv
  <2>3. DefineGlobal \/ ReturnToHost \/ ReturnToCaller
    BY <1>2, <2>2 DEF Step, LoadConst, LoadLiteral, Move, Unary, Binary, Jump, Loop, Branch,
                      GetGlobal, SetGlobal, Call, BadFetch, At, UnaryOp, BinaryOp, IntArith,
                      IntCompare, FloatCompare, FloatArith, BitOps
  <2>4. ~ReturnToCaller
    <3>1. Len(frames) = 1
      BY <2>1, InitRunning
    <3>2. ReturnToCaller => Len(frames) > 1
      BY DEF ReturnToCaller
    <3> QED
      BY <3>1, <3>2
  <2> QED
    BY <1>2, <2>3, <2>4, DefineFiling, ReturnFiling
<1> QED
  BY <1>1, <1>2

\* The next init chunk begins, or is empty and defines nothing.
LEMMA RunInitFiling ==
  ASSUME LaunchInv, RunInitChunk
  PROVE  Filing'
<1>1. /\ phase = "init" /\ Succeeded /\ next_init =< Len(init_chunks)
      /\ Execute(init_chunks[next_init]) /\ next_init' = next_init + 1
      /\ UNCHANGED phase
  BY DEF RunInitChunk, executeChunk
<1>2. PICK n : n = next_init
  OBVIOUS
<1>3. prog \in Program /\ next_init \in Nat \ {0} /\ UNCHANGED <<prog, globals>>
  BY <1>1 DEF LaunchInv, RunInv, LinkInv, Execute
<1>4. DOMAIN prog.modules = 1..Len(prog.modules) /\ Len(prog.modules) \in Nat
  BY <1>3, ModuleTyped
<1>5. n \in DOMAIN prog.modules /\ init_chunks[n] = prog.modules[n].init_chunk
  BY <1>1, <1>2, <1>3, <1>4 DEF LaunchInv, Launched
<1>6. \A i \in DOMAIN prog.modules : i < n => AllFiled(i)
  BY <1>1, <1>2, <1>3, <1>4 DEF LaunchInv, Filing, Succeeded
<1>7. CodeOf(init_chunks[n]) = InitImage(n).code
  BY <1>5 DEF CodeOf, InitImage
<1>8. next_init' - 1 = n
  BY <1>1, <1>2, <1>3
<1>9. CASE InitImage(n).code = <<>> /\ status' = "ok"
  <2>1. DefinedBy(n) = {}
    BY <1>3, <1>5, <1>9, InitChunks
  <2>2. AllFiled(n)
    BY <2>1 DEF AllFiled
  <2> QED
    BY <1>1, <1>3, <1>6, <1>8, <1>9, <2>2, FiledFrozen DEF Filing
<1>10. CASE /\ frames' = <<[fn |-> init_chunks[n], ip |-> 1, base |-> 0, out |-> 0]>>
            /\ status' = "running"
  <2>1. Len(frames') = 1 /\ frames'[1].fn = prog.modules[n].init_chunk /\ frames'[1].ip = 1
    BY <1>5, <1>10
  <2>2. FiledBefore(n, 1)
    <3>1. InitImage(n).code \in Seq(Instr)
      BY <1>3, <1>5, <1>7, InitChunks, ImagesWellFormed
    <3>2. DOMAIN InitImage(n).code \subseteq Nat \ {0}
      BY <3>1, LenProperties
    <3> QED
      BY <3>2 DEF FiledBefore
  <2>3. FiledBefore(n, 1)'
    BY <1>3, <2>2, FiledFrozen
  <2> QED
    BY <1>1, <1>3, <1>5, <1>6, <1>8, <1>10, <2>1, <2>3, FiledFrozen DEF Filing
<1> QED
  BY <1>1, <1>2, <1>7, <1>9, <1>10 DEF Execute

-----------------------------------------------------------------------------
(***************************************************************************)
(* The end of the init chunks, and the entry.                              *)
(***************************************************************************)
\* When the last init chunk is through, everything is filed.
LEMMA AllInitsDone ==
  ASSUME LaunchInv, phase = "init", Succeeded, next_init > Len(init_chunks)
  PROVE  linked = "linked" /\ \A i \in DOMAIN prog.modules : AllFiled(i)
<1>1. linked = "linked" /\ Len(init_chunks) = Len(prog.modules) /\ next_init \in Nat
  BY DEF LaunchInv, Launched, RunInv
<1>2. DOMAIN prog.modules = 1..Len(prog.modules) /\ Len(prog.modules) \in Nat
  BY ModuleTyped DEF LaunchInv, LinkInv
<1>3. ASSUME NEW i \in DOMAIN prog.modules PROVE AllFiled(i)
  <2>1. i < next_init - 1 \/ i = next_init - 1
    BY <1>1, <1>2
  <2>2. CASE status = "ok"
    BY <2>1, <2>2 DEF LaunchInv, Filing
  <2>3. CASE status = "idle"
    BY <1>1, <1>2, <2>3 DEF LaunchInv, Filing
  <2> QED
    BY <2>2, <2>3 DEF Succeeded
<1> QED
  BY <1>1, <1>3

\* What the entry finds depends on the program and the tables.
LEMMA EntryViewFrozen ==
  ASSUME UNCHANGED <<prog, globals>>, phase' # "entry" \/ \A i \in DOMAIN prog.modules : AllFiled(i)
  PROVE  EntryAfterAllInits'
<1>1. CASE phase' # "entry"
  BY <1>1 DEF EntryAfterAllInits
<1>2. CASE \A i \in DOMAIN prog.modules : AllFiled(i)
  <2>1. \A i \in DOMAIN prog.modules : AllFiled(i)'
    BY <1>2, FiledFrozen
  <2> QED
    BY <2>1 DEF EntryAfterAllInits, AllFiled, Filed
<1> QED
  BY <1>1, <1>2

\* The linker's entry is the one definition of its name; when that is a function
\* of a module, the module's init chunk has filed it under the key asked for.
LEMMA EntryIsFiled ==
  ASSUME LaunchInv, linked = "linked", \A i \in DOMAIN prog.modules : AllFiled(i),
         NEW i \in DOMAIN prog.modules, EntryName \in prog.modules[i].exports
  PROVE  entry \in DOMAIN globals
<1> DEFINE e == [module |-> i, place |-> 0, name |-> EntryName]
<1>1. LinkInv /\ prog \in Program
  BY DEF LaunchInv, LinkInv
<1>2. e \in Linker!Definitions
  BY DefinitionIs
<1>3. PICK d \in Linker!Definitions :
        /\ d.name = EntryName
        /\ entry = [module_id |-> prog.modules[d.module].module_id, name_id |-> EntryName]
  BY <1>1, LinkInvImplies DEF LinkVerdict, Linker!LinkVerdict
<1>4. Linker!NamesDistinct
  BY <1>1, LinkInvImplies DEF LinkVerdict, Linker!LinkVerdict
<1>5. d = e
  <2>1. e.name = EntryName
    OBVIOUS
  <2> HIDE DEF e
  <2> QED
    BY <1>2, <1>3, <1>4, <2>1 DEF Linker!NamesDistinct
<1>6. entry = [module_id |-> prog.modules[i].module_id, name_id |-> EntryName]
  BY <1>3, <1>5
<1>7. PICK o \in DefinedBy(i) : Image(o).name_id = EntryName
  BY <1>1, InitChunks
<1> QED
  BY <1>6, <1>7 DEF AllFiled, Filed

-----------------------------------------------------------------------------
(***************************************************************************)
(* The steps of the run.                                                   *)
(***************************************************************************)
\* A new run has filed nothing and launched nothing.
LEMMA LaunchInitEstablishes == RunInit => LaunchInv
BY RunInitEstablishes, LinkInitEstablishes
   DEF LaunchInv, Launched, Filing, EntryAfterAllInits, EntryFoundIfFunction, RunInit, Init, LaunchInit

\* The linker's pass comes before the launch.
LEMMA PassKeepsLaunch ==
  ASSUME LaunchInv, UNCHANGED <<vars, launchVars>>, phase # "link" => UNCHANGED passVars
  PROVE  Launched' /\ Filing' /\ EntryAfterAllInits' /\ EntryFoundIfFunction'
<1>1. /\ UNCHANGED <<prog, globals, frames, status, init_chunks, phase, next_init, outcome>>
      /\ phase # "link" => UNCHANGED linked
  BY DEF vars, launchVars, passVars
<1>2. Launched'
  BY <1>1 DEF LaunchInv, Launched
<1>3. Filing'
  BY <1>1, FiledFrozen DEF LaunchInv, Filing
<1>4. EntryAfterAllInits'
  <2>1. phase = "entry" => \A i \in DOMAIN prog.modules : AllFiled(i)
    BY DEF LaunchInv, EntryAfterAllInits, AllFiled, Filed
  <2>2. phase' = "entry" => \A i \in DOMAIN prog'.modules : AllFiled(i)'
    BY <1>1, <2>1, FiledFrozen
  <2> QED
    BY <2>2 DEF EntryAfterAllInits, AllFiled, Filed
<1>5. EntryFoundIfFunction'
  BY <1>1 DEF LaunchInv, EntryFoundIfFunction
<1> QED
  BY <1>2, <1>3, <1>4, <1>5

\* A linked program is launched, on a VM that has run nothing.
LEMMA BeginKeepsLaunch ==
  ASSUME LaunchInv, Launch
  PROVE  Launched' /\ Filing' /\ EntryAfterAllInits' /\ EntryFoundIfFunction'
<1>1. /\ phase = "link" /\ phase' = "init" /\ linked = "linked"
      /\ init_chunks' = [i \in DOMAIN prog.modules |-> prog.modules[i].init_chunk]
      /\ UNCHANGED <<prog, globals, frames, status, next_init, outcome, linked>>
  BY DEF Launch, Begin, vars, passVars
<1>2. next_init = 1 /\ status = "idle" /\ outcome = "none"
  BY <1>1 DEF LaunchInv, Launched
<1>3. DOMAIN prog.modules = 1..Len(prog.modules) /\ Len(prog.modules) \in Nat
  BY ModuleTyped DEF LaunchInv, LinkInv
<1>4. Len(init_chunks') = Len(prog.modules)
  BY <1>1, <1>3
<1>5. Launched'
  BY <1>1, <1>2, <1>4 DEF Launched
<1>6. Filing'
  BY <1>1, <1>2, <1>3 DEF Filing
<1>7. EntryAfterAllInits' /\ EntryFoundIfFunction'
  BY <1>1, <1>2 DEF EntryAfterAllInits, EntryFoundIfFunction
<1> QED
  BY <1>5, <1>6, <1>7

\* The launch ends; that the entry is missing needs that it is no function.
LEMMA EndKeepsLaunch ==
  ASSUME LaunchInv, GiveUp \/ InitFailed \/ EntryMissing \/ EntryReturned
  PROVE  Launched' /\ Filing' /\ EntryAfterAllInits' /\ EntryFoundIfFunction'
<1>1. phase' = "done" /\ UNCHANGED prog
  BY DEF GiveUp, InitFailed, EntryMissing, EntryReturned, End, vars
<1>2. Launched' /\ Filing' /\ EntryAfterAllInits'
  BY <1>1 DEF Launched, Filing, EntryAfterAllInits
<1>3. ASSUME outcome' = "EntryLookupFailed", NEW i \in DOMAIN prog.modules,
             EntryName \in prog.modules[i].exports
      PROVE  FALSE
  <2>1. EntryMissing
    BY <1>3 DEF GiveUp, InitFailed, EntryReturned, End
  <2>2. phase = "init" /\ Succeeded /\ next_init > Len(init_chunks) /\ entry \notin DOMAIN globals
    BY <2>1 DEF EntryMissing
  <2> QED
    BY <1>3, <2>2, AllInitsDone, EntryIsFiled
<1>4. EntryFoundIfFunction'
  BY <1>1, <1>3 DEF EntryFoundIfFunction
<1> QED
  BY <1>2, <1>4

\* An execution starts.
LEMMA HostKeepsLaunch ==
  ASSUME LaunchInv, RunInitChunk \/ CallEntry, UNCHANGED passVars
  PROVE  Launched' /\ Filing' /\ EntryAfterAllInits' /\ EntryFoundIfFunction'
<1>1. /\ phase = "init" /\ phase' \in {"init", "entry"}
      /\ UNCHANGED <<prog, globals, init_chunks, outcome, linked>>
  BY DEF RunInitChunk, CallEntry, executeChunk, Execute, passVars
<1>2. Launched' /\ EntryFoundIfFunction'
  BY <1>1 DEF LaunchInv, Launched, EntryFoundIfFunction
<1>3. CASE RunInitChunk
  <2>1. phase' # "entry"
    BY <1>1, <1>3 DEF RunInitChunk
  <2> QED
    BY <1>1, <1>2, <1>3, <2>1, RunInitFiling, EntryViewFrozen
<1>4. CASE CallEntry
  <2>1. phase = "init" /\ Succeeded /\ next_init > Len(init_chunks) /\ phase' = "entry"
    BY <1>4 DEF CallEntry
  <2>2. Filing'
    BY <2>1 DEF Filing
  <2>3. EntryAfterAllInits'
    BY <1>1, <2>1, AllInitsDone, EntryViewFrozen
  <2> QED
    BY <1>2, <2>2, <2>3
<1> QED
  BY <1>3, <1>4

\* The VM executes an instruction: an init chunk's, or one of the entry's code,
\* which defines nothing.
LEMMA StepKeepsLaunch ==
  ASSUME LaunchInv, Step, UNCHANGED <<launchVars, passVars>>
  PROVE  Launched' /\ Filing' /\ EntryAfterAllInits' /\ EntryFoundIfFunction'
<1>1. UNCHANGED <<prog, init_chunks, phase, next_init, outcome, linked>>
  BY ProgramKept DEF launchVars, passVars
<1>2. status = "running" /\ phase \in {"init", "entry"}
  <2>1. status = "running"
    BY DEF Step, LoadConst, LoadLiteral, Move, Unary, Binary, Jump, Loop, Branch, DefineGlobal,
           GetGlobal, SetGlobal, Call, ReturnToHost, ReturnToCaller, BadFetch, At
  <2> QED
    BY <2>1 DEF LaunchInv, RunInv, FramesOwned
<1>3. Launched' /\ EntryFoundIfFunction'
  BY <1>1, <1>2 DEF LaunchInv, Launched, EntryFoundIfFunction
<1>4. CASE phase = "init"
  <2>1. Filing'
    BY <1>4, StepFiling
  <2>2. EntryAfterAllInits'
    BY <1>1, <1>4 DEF EntryAfterAllInits
  <2> QED
    BY <1>3, <2>1, <2>2
<1>5. CASE phase = "entry"
  <2>1. Filing'
    BY <1>1, <1>5 DEF Filing
  <2>2. UNCHANGED globals
    <3>1. CASE DefineGlobal \/ SetGlobal
      BY <1>5, <3>1, RunningCode DEF LaunchInv, DefineGlobal, SetGlobal, At
    <3>2. CASE ~DefineGlobal /\ ~SetGlobal
      BY <3>2, GlobalsKept
    <3> QED
      BY <3>1, <3>2
  <2>3. \A i \in DOMAIN prog.modules : AllFiled(i)
    BY <1>5 DEF LaunchInv, EntryAfterAllInits, AllFiled, Filed
  <2>4. EntryAfterAllInits'
    BY <1>1, <2>2, <2>3, EntryViewFrozen
  <2> QED
    BY <1>3, <2>1, <2>4
<1> QED
  BY <1>2, <1>4, <1>5

\* Every step of the run.
LEMMA LaunchNextKeeps == LaunchInv /\ [RunNext]_runVars => LaunchInv'
<1> SUFFICES ASSUME LaunchInv, [RunNext]_runVars PROVE LaunchInv'
  OBVIOUS
<1>1. RunInv' /\ LinkInv'
  BY RunNextKeeps, LinkNextKeeps DEF LaunchInv
<1>2. SUFFICES Launched' /\ Filing' /\ EntryAfterAllInits' /\ EntryFoundIfFunction'
  BY <1>1 DEF LaunchInv
<1>3. CASE Link \/ UNCHANGED runVars
  BY <1>3, PassKeepsLaunch DEF Link, runVars
<1>4. CASE Launch
  BY <1>4, BeginKeepsLaunch
<1>5. CASE GiveUp
  BY <1>5, EndKeepsLaunch
<1>6. CASE LaunchStep /\ UNCHANGED passVars
  BY <1>6, EndKeepsLaunch, HostKeepsLaunch, StepKeepsLaunch DEF LaunchStep
<1> QED
  BY <1>3, <1>4, <1>5, <1>6 DEF RunNext

\* From the first link step to the end, the launch is where it says it is.
LEMMA LaunchInvariance == RunSpec => []LaunchInv
<1>1. RunInit => LaunchInv
  BY LaunchInitEstablishes
<1>2. LaunchInv /\ [RunNext]_runVars => LaunchInv'
  BY LaunchNextKeeps
<1> QED
  BY <1>1, <1>2, PTL DEF RunSpec

-----------------------------------------------------------------------------
(***************************************************************************)
(* The theorems.                                                           *)
(***************************************************************************)
\* While the entry runs, at any depth of calls, each function of each module
\* can be looked up under its module's key: the init chunks of all modules have
\* run to their end, and none displaced what another had filed.
THEOREM EntryFindsTablesComplete == RunSpec => []EntryAfterAllInits
<1>1. LaunchInv => EntryAfterAllInits
  BY DEF LaunchInv
<1> QED
  BY <1>1, LaunchInvariance, PTL

\* The launcher's lookup of a linked entry fails only where the entry's name is
\* no function of any module.
THEOREM LinkedEntryIsFound == RunSpec => []EntryFoundIfFunction
<1>1. LaunchInv => EntryFoundIfFunction
  BY DEF LaunchInv
<1> QED
  BY <1>1, LaunchInvariance, PTL
================================================================================
