----------------------------- MODULE NikiVMProofs ------------------------------
(***************************************************************************)
(* NikiVM is type correct, keeps every register window inside the stack    *)
(* and every call matched with its return, and its windows keep the        *)
(* promise of CallContract, for all programs of well-formed chunks and all *)
(* sizes of the stack, the call depth and the integers.                    *)
(*                                                                         *)
(* No property is inductive alone: an opcode that reads a register needs   *)
(* the window of the running frame to be inside the stack to find a Value, *)
(* and a function it calls must come from a Value to be a Func.            *)
(***************************************************************************)
EXTENDS NikiVMContract, NikiObjectProofs

\* The loop only runs while there is a frame to run.
Running == status = "running" => frames # <<>>

IInv ==
  /\ prog \in Program
  /\ TypeOK
  /\ WindowsInBounds
  /\ CallChain
  /\ Running

-----------------------------------------------------------------------------
(***************************************************************************)
(* Programs.                                                               *)
(***************************************************************************)
\* Every function of the program is a well-formed chunk.
LEMMA ImagesWellFormed ==
  ASSUME prog \in Program, NEW fn \in Func
  PROVE  /\ WellFormed(Image(fn))
         /\ Image(fn).arity \in Nat
         /\ Image(fn).name_id \in NameId
         /\ Image(fn).module_id \in Module
         /\ Image(fn).constants \in Seq(Value)
         /\ CodeOf(fn) \in Seq(Instr)
         /\ Slots(fn) \in 1..StackCapacity
         /\ Image(fn).arity =< Slots(fn)
<1>1. WellFormed(Image(fn))
  BY ProgramAssumption DEF Image
<1>2. Image(fn) \in FuncImage
  BY <1>1 DEF WellFormed
<1> QED
  BY <1>1, <1>2 DEF WellFormed, FuncImage, CodeOf, Slots

\* A constant is a Value.
LEMMA ConstantsAreValues ==
  ASSUME prog \in Program, NEW fn \in Func, NEW index \in Nat
  PROVE  ConstantAt(Image(fn), index) \subseteq Value
  BY ImagesWellFormed DEF ConstantAt

-----------------------------------------------------------------------------
(***************************************************************************)
(* The running frame.                                                      *)
(***************************************************************************)
\* The frames below the running one keep everything when it moves on.
LEMMA MovedFrames ==
  ASSUME NEW fs \in Seq(CallFrame), fs # <<>>, NEW n \in Nat \ {0}
  PROVE  LET g == [fs EXCEPT ![Len(fs)].ip = n] IN
         /\ g \in Seq(CallFrame)
         /\ Len(g) = Len(fs)
         /\ \A i \in 1..Len(fs) :
              /\ g[i].fn = fs[i].fn
              /\ g[i].base = fs[i].base
              /\ g[i].out = fs[i].out
              /\ i # Len(fs) => g[i] = fs[i]
         /\ g[Len(fs)].ip = n
<1> DEFINE g == [fs EXCEPT ![Len(fs)].ip = n]
<1>1. Len(fs) \in Nat \ {0} /\ Len(fs) \in DOMAIN fs
  BY EmptySeq, LenProperties
<1>2. fs[Len(fs)] \in CallFrame
  BY <1>1, ElementOfSeq
<1>3. [fs[Len(fs)] EXCEPT !.ip = n] \in CallFrame
  BY <1>2 DEF CallFrame
<1>4. g = [fs EXCEPT ![Len(fs)] = [fs[Len(fs)] EXCEPT !.ip = n]]
  OBVIOUS
<1>5. g \in Seq(CallFrame) /\ Len(g) = Len(fs)
  BY <1>1, <1>3, <1>4, ExceptSeq
<1>6. \A i \in 1..Len(fs) : i # Len(fs) => g[i] = fs[i]
  BY <1>1, <1>4
<1>7. g[Len(fs)] = [fs[Len(fs)] EXCEPT !.ip = n]
  BY <1>1, <1>4
<1> QED
  BY <1>1, <1>2, <1>5, <1>6, <1>7 DEF CallFrame

\* The running frame is a CallFrame whose window lies inside the stack.
LEMMA RunningFrame ==
  ASSUME IInv, status = "running"
  PROVE  /\ Len(frames) \in Nat \ {0}
         /\ Len(frames) \in DOMAIN frames
         /\ currentFrame \in CallFrame
         /\ currentFrame.fn \in Func
         /\ currentFrame.ip \in Nat \ {0}
         /\ currentFrame.base \in Nat
         /\ currentFrame.base + Slots(currentFrame.fn) =< StackCapacity
<1>1. frames \in Seq(CallFrame) /\ frames # <<>>
  BY DEF IInv, TypeOK, Running
<1>2. Len(frames) \in Nat \ {0} /\ Len(frames) \in DOMAIN frames
  BY <1>1, EmptySeq, LenProperties
<1>3. currentFrame \in CallFrame
  BY <1>1, <1>2, ElementOfSeq DEF currentFrame
<1> QED
  BY <1>2, <1>3, SizeAssumption DEF CallFrame, IInv, WindowsInBounds, currentFrame

\* Every register the instruction names holds a Value.
LEMMA OperandsAreValues ==
  ASSUME IInv, status = "running", currentFrame.ip =< Len(Code),
         NEW r \in RegisterOperands(Ins) \cup HeapRegisters(Ins), r \in Nat
  PROVE  r < Slots(currentFrame.fn) /\ Reg(r) \in Value
<1>1. /\ currentFrame.fn \in Func /\ currentFrame.base \in Nat /\ currentFrame.ip \in Nat \ {0}
      /\ currentFrame.base + Slots(currentFrame.fn) =< StackCapacity
  BY RunningFrame
<1>2. WellFormed(Image(currentFrame.fn)) /\ CodeOf(currentFrame.fn) \in Seq(Instr)
      /\ Slots(currentFrame.fn) \in 1..StackCapacity
  BY <1>1, ImagesWellFormed DEF IInv
<1>3. currentFrame.ip \in DOMAIN Code
  BY <1>1, <1>2 DEF Code
<1>4. r < Slots(currentFrame.fn)
  BY <1>2, <1>3 DEF WellFormed, Ins, Code, CodeOf, Slots
<1>5. currentFrame.base + r \in 0..(StackCapacity - 1)
  BY <1>1, <1>2, <1>4, SizeAssumption
<1> QED
  BY <1>4, <1>5 DEF Reg, IInv, TypeOK

\* The instruction is one.
LEMMA InsTyped ==
  ASSUME IInv, status = "running", currentFrame.ip =< Len(Code)
  PROVE  /\ Ins \in Instr
         /\ Ins.a \in Nat /\ Ins.b \in Nat /\ Ins.c \in Nat /\ Ins.d \in Nat
<1>1. currentFrame.fn \in Func /\ currentFrame.ip \in Nat \ {0}
  BY RunningFrame
<1>2. Code \in Seq(Instr)
  BY <1>1, ImagesWellFormed DEF IInv, Code
<1>3. Ins \in Instr
  BY <1>1, <1>2, ElementOfSeq, LenProperties DEF Ins
<1> QED
  BY <1>3 DEF Instr

-----------------------------------------------------------------------------
(***************************************************************************)
(* The ways an instruction ends.                                           *)
(***************************************************************************)
\* Moving the running frame on disturbs no window and no pending call.
LEMMA JumpKeepsFrames ==
  ASSUME IInv, status = "running", NEW n \in Nat \ {0}, JumpTo(n), UNCHANGED prog
  PROVE  /\ frames' \in Seq(CallFrame)
         /\ WindowsInBounds'
         /\ CallChain'
         /\ frames' # <<>>
<1>1. frames \in Seq(CallFrame) /\ frames # <<>> /\ Len(frames) \in Nat \ {0}
  BY RunningFrame DEF IInv, TypeOK, Running
<1>2. /\ frames' \in Seq(CallFrame)
      /\ Len(frames') = Len(frames)
      /\ \A i \in 1..Len(frames) :
           /\ frames'[i].fn = frames[i].fn
           /\ frames'[i].base = frames[i].base
           /\ frames'[i].out = frames[i].out
           /\ i # Len(frames) => frames'[i] = frames[i]
  BY <1>1, MovedFrames DEF JumpTo
<1>3. frames' # <<>>
  BY <1>1, <1>2
<1>4. WindowsInBounds'
  BY <1>1, <1>2 DEF IInv, WindowsInBounds, Slots, Image
<1>5. CallChain'
  <2>1. SUFFICES ASSUME NEW i \in 1..(Len(frames) - 1)
        PROVE  /\ frames'[i].ip - 1 \in DOMAIN CodeOf(frames'[i].fn)
               /\ PendingCall(i)'.op = "CALL"
               /\ frames'[i + 1].base = frames'[i].base + PendingCall(i)'.c
               /\ frames'[i + 1].out = PendingCall(i)'.a
               /\ Image(frames'[i + 1].fn).arity = PendingCall(i)'.d
    BY <1>1, <1>2 DEF CallChain, CodeOf, Image
  <2>2. /\ i \in 1..Len(frames) /\ i + 1 \in 1..Len(frames)
        /\ i # Len(frames)
    BY <1>1
  <2>3. /\ frames'[i] = frames[i]
        /\ frames'[i + 1].fn = frames[i + 1].fn
        /\ frames'[i + 1].base = frames[i + 1].base
        /\ frames'[i + 1].out = frames[i + 1].out
    BY <1>2, <2>2
  <2>4. PendingCall(i)' = PendingCall(i)
    BY <2>3 DEF PendingCall, CodeOf, Image
  <2> QED
    BY <2>3, <2>4 DEF IInv, CallChain
<1> QED
  BY <1>2, <1>3, <1>4, <1>5

\* Writing a Value to a register.
LEMMA SetRegKeeps ==
  ASSUME IInv, status = "running", NEW r, NEW v \in Value, SetReg(r, v)
  PROVE  IInv'
<1>1. currentFrame.ip + 1 \in Nat \ {0}
  BY RunningFrame
<1>2. /\ frames' \in Seq(CallFrame) /\ WindowsInBounds' /\ CallChain' /\ frames' # <<>>
  BY <1>1, JumpKeepsFrames DEF SetReg, NextIp
<1>3. stack' \in [0..(StackCapacity - 1) -> Value]
  BY DEF SetReg, IInv, TypeOK
<1>4. TypeOK'
  BY <1>2, <1>3 DEF IInv, TypeOK, SetReg
<1> QED
  BY <1>2, <1>4 DEF IInv, Running, SetReg

\* Leaving the loop with an error.
LEMMA StopKeeps ==
  ASSUME IInv, NEW s \in {"error", "trapped"}, Stop(s)
  PROVE  IInv'
<1>1. TypeOK'
  BY DEF Stop, IInv, TypeOK
<1>2. WindowsInBounds' /\ CallChain'
  BY DEF Stop, IInv, WindowsInBounds, CallChain, PendingCall, Slots, Image, CodeOf
<1> QED
  BY <1>1, <1>2 DEF Stop, IInv, Running

\* Jumping, or refusing to.
LEMMA RedirectKeeps ==
  ASSUME IInv, status = "running", NEW n, Redirect(n)
  PROVE  IInv'
<1>1. CASE Fail
  BY <1>1, StopKeeps DEF Fail
<1>2. CASE /\ n \in 1..(Len(Code) + 1)
           /\ JumpTo(n)
           /\ UNCHANGED <<prog, stack, globals, global_objects, module_id, status, result>>
  <2>1. n \in Nat \ {0}
    BY <1>2
  <2>2. /\ frames' \in Seq(CallFrame) /\ WindowsInBounds' /\ CallChain' /\ frames' # <<>>
    BY <1>2, <2>1, JumpKeepsFrames
  <2>3. TypeOK'
    BY <1>2, <2>2 DEF IInv, TypeOK
  <2> QED
    BY <1>2, <2>2, <2>3 DEF IInv, Running
<1> QED
  BY <1>1, <1>2 DEF Redirect

\* An opcode that computes.
LEMMA FinishKeeps ==
  ASSUME IInv, status = "running", NEW r, NEW o \in Outcome, Finish(r, o)
  PROVE  IInv'
  BY SetRegKeeps, StopKeeps DEF Finish, Fail

\* Defining a global symbol under a key the tables may have.
LEMMA DefineKeeps ==
  ASSUME IInv, status = "running", NEW k \in GlobalKey, NEW o, Define(k, o)
  PROVE  IInv'
<1>1. CASE Fail
  BY <1>1, StopKeeps DEF Fail
<1>2. CASE ~Fail
  <2>1. /\ NextIp
        /\ UNCHANGED <<prog, stack, module_id, status, result>>
        /\ \/ o \in Func /\ globals' = Put(globals, k, o) /\ UNCHANGED global_objects
           \/ o \in StructDef /\ global_objects' = Put(global_objects, k, o) /\ UNCHANGED globals
    BY <1>2 DEF Define
  <2>2. currentFrame.ip + 1 \in Nat \ {0}
    BY RunningFrame
  <2>3. /\ frames' \in Seq(CallFrame) /\ WindowsInBounds' /\ CallChain' /\ frames' # <<>>
    BY <2>1, <2>2, JumpKeepsFrames DEF NextIp
  <2>4. /\ DOMAIN globals' \subseteq GlobalKey
        /\ \A j \in DOMAIN globals' : globals'[j] \in Func
        /\ DOMAIN global_objects' \subseteq GlobalKey
        /\ \A j \in DOMAIN global_objects' : global_objects'[j] \in StructDef
    BY <2>1 DEF IInv, TypeOK, Put
  <2>5. TypeOK'
    BY <2>1, <2>3, <2>4 DEF IInv, TypeOK
  <2> QED
    BY <2>1, <2>3, <2>5 DEF IInv, Running
<1> QED
  BY <1>1, <1>2

-----------------------------------------------------------------------------
(***************************************************************************)
(* The opcodes.                                                            *)
(***************************************************************************)
\* OP_LOAD_CONST, OP_TRUE, OP_FALSE, OP_NIL, OP_MOVE and the operators.
LEMMA ComputeKeeps ==
  ASSUME IInv, LoadConst \/ LoadLiteral \/ Move \/ Unary \/ Binary
  PROVE  IInv'
<1>1. status = "running" /\ currentFrame.ip =< Len(Code)
  BY DEF LoadConst, LoadLiteral, Move, Unary, Binary, At
<1>2. Ins.a \in Nat /\ Ins.b \in Nat /\ Ins.c \in Nat
  BY <1>1, InsTyped
<1>3. CASE LoadConst
  <2>1. ConstantAt(Image(currentFrame.fn), Ins.b) \subseteq Value
    BY <1>1, <1>2, RunningFrame, ConstantsAreValues DEF IInv
  <2> QED
    BY <1>1, <1>3, <2>1, SetRegKeeps, StopKeeps DEF LoadConst, Fail
<1>4. CASE LoadLiteral
  <2>1. Literal(Ins.op) \in Value
    BY MadeValues DEF Literal
  <2> QED
    BY <1>1, <1>4, <2>1, SetRegKeeps DEF LoadLiteral
<1>5. CASE Move
  <2>1. Ins.b \in RegisterOperands(Ins)
    BY <1>5 DEF Move, At, RegisterOperands, UnaryOp
  <2>2. Reg(Ins.b) \in Value
    BY <1>1, <1>2, <2>1, OperandsAreValues
  <2> QED
    BY <1>1, <1>5, <2>2, SetRegKeeps DEF Move
<1>6. CASE Unary
  <2>1. Ins.b \in RegisterOperands(Ins)
    BY <1>6 DEF Unary, At, RegisterOperands, UnaryOp
  <2>2. Reg(Ins.b) \in Value
    BY <1>1, <1>2, <2>1, OperandsAreValues
  <2>3. UnaryOutcomes(Ins.op, Reg(Ins.b)) \subseteq Outcome
    BY <2>2, UnaryTyped
  <2> QED
    BY <1>1, <1>6, <2>3, FinishKeeps DEF Unary
<1>7. CASE Binary
  <2>1. Ins.b \in RegisterOperands(Ins) /\ Ins.c \in RegisterOperands(Ins)
    BY <1>7 DEF Binary, At, RegisterOperands, BinaryOp, UnaryOp, IntArith, IntCompare,
                FloatCompare, FloatArith, BitOps
  <2>2. Reg(Ins.b) \in Value /\ Reg(Ins.c) \in Value
    BY <1>1, <1>2, <2>1, OperandsAreValues
  <2>3. BinaryOutcomes(Ins.op, Reg(Ins.b), Reg(Ins.c)) \subseteq Outcome
    BY <2>2, BinaryTyped
  <2> QED
    BY <1>1, <1>7, <2>3, FinishKeeps DEF Binary
<1> QED
  BY <1>3, <1>4, <1>5, <1>6, <1>7

\* The jumps and branches, and the end of the code.
LEMMA ControlKeeps ==
  ASSUME IInv, Jump \/ Loop \/ Branch \/ BadFetch
  PROVE  IInv'
<1>1. CASE BadFetch
  BY <1>1, StopKeeps DEF BadFetch, Fail
<1>2. CASE Jump \/ Loop \/ Branch
  BY <1>2, RedirectKeeps DEF Jump, Loop, Branch, At
<1> QED
  BY <1>1, <1>2

\* A name of the pool makes a key.
LEMMA KeysTyped ==
  ASSUME IInv, NEW n \in NameId
  PROVE  Key(n) \in GlobalKey
  BY DEF IInv, TypeOK, Key, GlobalKey

\* The name in a constant of a global access, when there is one.
LEMMA NamesTyped ==
  ASSUME IInv, status = "running", currentFrame.ip =< Len(Code),
         Ins.op \in {"GET_GLOBAL", "SET_GLOBAL"},
         NEW v \in ConstantAt(Image(currentFrame.fn), Ins.b)
  PROVE  v.as \in NameId
<1>1. currentFrame.fn \in Func /\ currentFrame.ip \in Nat \ {0}
  BY RunningFrame
<1>2. WellFormed(Image(currentFrame.fn)) /\ CodeOf(currentFrame.fn) \in Seq(Instr)
  BY <1>1, ImagesWellFormed DEF IInv
<1>3. currentFrame.ip \in DOMAIN Image(currentFrame.fn).code
  BY <1>1, <1>2 DEF Code, CodeOf
<1> QED
  BY <1>2, <1>3 DEF WellFormed, Ins, Code, CodeOf

\* OP_DEFINE_GLOBAL, OP_GET_GLOBAL and OP_SET_GLOBAL.
LEMMA GlobalsKeep ==
  ASSUME IInv, DefineGlobal \/ GetGlobal \/ SetGlobal
  PROVE  IInv'
<1>1. status = "running" /\ currentFrame.ip =< Len(Code)
  BY DEF DefineGlobal, GetGlobal, SetGlobal, At
<1>2. Ins.a \in Nat /\ Ins.b \in Nat /\ currentFrame.fn \in Func
  BY <1>1, InsTyped, RunningFrame
<1>3. CASE Fail
  BY <1>3, StopKeeps DEF Fail
<1>4. CASE DefineGlobal /\ ~Fail
  <2>1. PICK v \in ConstantAt(Image(currentFrame.fn), Ins.a) : Define(Key(NameOf(v.as)), v.as)
    BY <1>4 DEF DefineGlobal
  <2>2. v.as \in Func \cup StructDef
    BY <1>4, <2>1 DEF Define
  <2>3. NameOf(v.as) \in NameId
    <3>1. CASE v.as \in Func
      BY <3>1, ImagesWellFormed DEF NameOf, IInv
    <3>2. CASE v.as \in StructDef /\ v.as \notin Func
      BY <3>2, ProgramAssumption DEF NameOf, IInv
    <3> QED
      BY <2>2, <3>1, <3>2
  <2> QED
    BY <1>1, <2>1, <2>3, KeysTyped, DefineKeeps
<1>5. CASE GetGlobal /\ ~Fail
  <2>1. PICK v \in ConstantAt(Image(currentFrame.fn), Ins.b) :
          \/ Key(v.as) \in DOMAIN globals /\ SetReg(Ins.a, makeObject(globals[Key(v.as)]))
          \/ /\ Key(v.as) \in DOMAIN global_objects
             /\ SetReg(Ins.a, makeObject(global_objects[Key(v.as)]))
    BY <1>5 DEF GetGlobal
  <2>2. CASE Key(v.as) \in DOMAIN globals /\ SetReg(Ins.a, makeObject(globals[Key(v.as)]))
    <3>1. makeObject(globals[Key(v.as)]) \in Value
      BY <2>2, MadeValues DEF IInv, TypeOK, Obj
    <3> QED
      BY <1>1, <2>2, <3>1, SetRegKeeps
  <2>3. CASE /\ Key(v.as) \in DOMAIN global_objects
             /\ SetReg(Ins.a, makeObject(global_objects[Key(v.as)]))
    <3>1. makeObject(global_objects[Key(v.as)]) \in Value
      BY <2>3, MadeValues DEF IInv, TypeOK, Obj
    <3> QED
      BY <1>1, <2>3, <3>1, SetRegKeeps
  <2> QED
    BY <2>1, <2>2, <2>3
<1>6. CASE SetGlobal /\ ~Fail
  <2>1. PICK v \in ConstantAt(Image(currentFrame.fn), Ins.b) : Define(Key(v.as), Reg(Ins.a).as)
    BY <1>6 DEF SetGlobal
  <2>2. v.as \in NameId
    BY <1>1, <1>6, NamesTyped DEF SetGlobal, At
  <2> QED
    BY <1>1, <2>1, <2>2, KeysTyped, DefineKeeps
<1> QED
  BY <1>3, <1>4, <1>5, <1>6

-----------------------------------------------------------------------------
(***************************************************************************)
(* Calls and returns.                                                      *)
(***************************************************************************)
\* OP_CALL: the two tests leave room for the callee's window.
LEMMA CallKeeps ==
  ASSUME IInv, Call
  PROVE  IInv'
<1> DEFINE n       == Len(frames)
           callee  == Reg(Ins.b).as
           newBase == currentFrame.base + Ins.c
           moved   == [frames EXCEPT ![n].ip = currentFrame.ip + 1]
           new     == [fn |-> callee, ip |-> 1, base |-> newBase, out |-> Ins.a]
<1>1. status = "running" /\ currentFrame.ip =< Len(Code) /\ Ins.op = "CALL"
  BY DEF Call, At
<1>2. CASE Fail
  BY <1>2, StopKeeps DEF Fail
<1>3. CASE ~Fail
  <2>1. /\ isFunction(Reg(Ins.b))
        /\ CallAllowed(callee, Ins.d, newBase)
        /\ frames' = Append(moved, new)
        /\ UNCHANGED <<prog, stack, globals, global_objects, module_id, status, result>>
    BY <1>3 DEF Call, currentFrame
  <2>2. /\ n \in Nat \ {0} /\ frames \in Seq(CallFrame) /\ frames # <<>>
        /\ currentFrame \in CallFrame /\ currentFrame.ip \in Nat \ {0}
        /\ currentFrame.base \in Nat /\ currentFrame.fn \in Func
    BY <1>1, RunningFrame DEF IInv, TypeOK, Running
  <2>3. Ins.a \in Nat /\ Ins.b \in Nat /\ Ins.c \in Nat /\ Ins.d \in Nat
    BY <1>1, InsTyped
  <2>4. callee \in Func
    BY <2>1 DEF isFunction
  <2>5. Slots(callee) \in 1..StackCapacity /\ newBase + Slots(callee) =< StackCapacity
    BY <2>1, <2>4, ImagesWellFormed DEF CallAllowed, IInv
  <2>6. new \in CallFrame
    <3>1. newBase \in 0..(StackCapacity - 1)
      BY <2>2, <2>3, <2>5, SizeAssumption
    <3> HIDE DEF newBase, callee
    <3> QED
      BY <2>3, <2>4, <3>1 DEF CallFrame
  <2>7. /\ moved \in Seq(CallFrame) /\ Len(moved) = n
        /\ \A i \in 1..n : /\ moved[i].fn = frames[i].fn
                           /\ moved[i].base = frames[i].base
                           /\ moved[i].out = frames[i].out
                           /\ i # n => moved[i] = frames[i]
        /\ moved[n].ip = currentFrame.ip + 1
    <3>1. currentFrame.ip + 1 \in Nat \ {0}
      BY <2>2
    <3> QED
      BY <2>2, <3>1, MovedFrames
  <2>8. /\ frames' \in Seq(CallFrame) /\ Len(frames') = n + 1
        /\ \A i \in 1..n : frames'[i] = moved[i]
        /\ frames'[n + 1] = new
    <3> HIDE DEF moved, new
    <3> QED
      BY <2>1, <2>6, <2>7, AppendProperties
  <2>9. WindowsInBounds'
    <3>1. n + 1 =< MaxFrames
      BY <2>1, <2>2, SizeAssumption DEF CallAllowed, IInv, WindowsInBounds
    <3>2. \A i \in 1..n : frames'[i].base + Slots(frames'[i].fn) =< StackCapacity
      <4>1. \A i \in 1..n : frames[i].base + Slots(frames[i].fn) =< StackCapacity
        BY DEF IInv, WindowsInBounds
      <4>2. \A i \in 1..n : frames'[i].base = frames[i].base /\ frames'[i].fn = frames[i].fn
        BY <2>7, <2>8
      <4> QED
        BY <4>1, <4>2
    <3>3. frames'[n + 1].base + Slots(frames'[n + 1].fn) =< StackCapacity
      BY <2>5, <2>8
    <3>4. \A i \in 1..(n + 1) : i \in 1..n \/ i = n + 1
      BY <2>2
    <3>5. \A i \in 1..(n + 1) : frames'[i].base + Slots(frames'[i].fn) =< StackCapacity
      BY <3>2, <3>3, <3>4
    <3> QED
      BY <2>1, <2>8, <3>1, <3>5 DEF WindowsInBounds, Slots, Image
  <2>10. CallChain'
    <3>1. SUFFICES ASSUME NEW i \in 1..n
          PROVE  /\ frames'[i].ip - 1 \in DOMAIN CodeOf(frames'[i].fn)
                 /\ PendingCall(i)'.op = "CALL"
                 /\ frames'[i + 1].base = frames'[i].base + PendingCall(i)'.c
                 /\ frames'[i + 1].out = PendingCall(i)'.a
                 /\ Image(frames'[i + 1].fn).arity = PendingCall(i)'.d
      <4>1. Len(frames') - 1 = n
        BY <2>2, <2>8
      <4> QED
        BY <2>1, <4>1 DEF CallChain, CodeOf, Image
    <3>2. CASE i = n
      <4>1. /\ frames'[i].ip - 1 = currentFrame.ip
            /\ frames'[i].fn = currentFrame.fn
            /\ frames'[i].base = currentFrame.base
        <5>1. frames'[i] = moved[i] /\ frames[i] = currentFrame
          BY <2>8, <3>2 DEF currentFrame
        <5>2. /\ moved[i].fn = frames[i].fn /\ moved[i].base = frames[i].base
              /\ moved[i].ip = currentFrame.ip + 1
          BY <2>7, <3>2
        <5> QED
          BY <2>2, <5>1, <5>2
      <4>2. CodeOf(currentFrame.fn) \in Seq(Instr)
        BY <2>2, ImagesWellFormed DEF IInv
      <4>3. currentFrame.ip \in DOMAIN CodeOf(currentFrame.fn)
        BY <1>1, <2>2, <4>2 DEF Code
      <4>4. PendingCall(i)' = CodeOf(frames'[i].fn)[frames'[i].ip - 1]
        BY <2>1 DEF PendingCall, CodeOf, Image
      <4>5. PendingCall(i)' = Ins
        BY <4>1, <4>4 DEF Ins, Code
      <4>6. frames'[i + 1] = new /\ Image(callee).arity = Ins.d
        BY <2>1, <2>8, <3>2 DEF CallAllowed
      <4> HIDE DEF callee
      <4> QED
        BY <1>1, <4>1, <4>3, <4>5, <4>6
    <3>3. CASE i # n
      <4>1. i \in 1..(n - 1) /\ i + 1 \in 1..n
        BY <2>2, <3>3
      <4>2. /\ frames'[i] = frames[i]
            /\ frames'[i + 1].fn = frames[i + 1].fn
            /\ frames'[i + 1].base = frames[i + 1].base
            /\ frames'[i + 1].out = frames[i + 1].out
        BY <2>7, <2>8, <3>3, <4>1
      <4>3. PendingCall(i)' = PendingCall(i)
        BY <2>1, <4>2 DEF PendingCall, CodeOf, Image
      <4> QED
        BY <4>1, <4>2, <4>3 DEF IInv, CallChain
    <3> QED
      BY <3>2, <3>3
  <2>11. TypeOK'
    BY <2>1, <2>8 DEF IInv, TypeOK
  <2> QED
    BY <2>1, <2>2, <2>8, <2>9, <2>10, <2>11 DEF IInv, Running
<1> QED
  BY <1>2, <1>3

\* The result register of a running frame.
LEMMA ResultIsValue ==
  ASSUME IInv, status = "running"
  PROVE  Reg(0) \in Value
<1>1. /\ currentFrame.fn \in Func /\ currentFrame.base \in Nat
      /\ currentFrame.base + Slots(currentFrame.fn) =< StackCapacity
  BY RunningFrame
<1>2. Slots(currentFrame.fn) \in 1..StackCapacity
  BY <1>1, ImagesWellFormed DEF IInv
<1>3. currentFrame.base + 0 \in 0..(StackCapacity - 1)
  BY <1>1, <1>2, SizeAssumption
<1> QED
  BY <1>3 DEF Reg, IInv, TypeOK

\* OP_RETURN.
LEMMA ReturnKeeps ==
  ASSUME IInv, ReturnToHost \/ ReturnToCaller
  PROVE  IInv'
<1>1. status = "running" /\ currentFrame.ip =< Len(Code)
  BY DEF ReturnToHost, ReturnToCaller, At
<1>2. Reg(0) \in Value
  BY <1>1, ResultIsValue
<1>3. CASE ReturnToHost
  <2>1. currentFrame.ip + 1 \in Nat \ {0}
    BY <1>1, RunningFrame
  <2>2. /\ frames' \in Seq(CallFrame) /\ WindowsInBounds' /\ CallChain' /\ frames' # <<>>
    BY <1>1, <1>3, <2>1, JumpKeepsFrames DEF ReturnToHost, NextIp
  <2>3. TypeOK'
    BY <1>2, <1>3, <2>2 DEF ReturnToHost, IInv, TypeOK
  <2> QED
    BY <1>3, <2>2, <2>3 DEF ReturnToHost, IInv, Running
<1>4. CASE ReturnToCaller
  <2> DEFINE n == Len(frames)
  <2>1. /\ n \in Nat /\ n > 1 /\ frames \in Seq(CallFrame)
        /\ frames' = SubSeq(frames, 1, n - 1)
        /\ stack' = [stack EXCEPT ![frames[n - 1].base + currentFrame.out] = Reg(0)]
        /\ UNCHANGED <<prog, globals, global_objects, module_id, status, result>>
    BY <1>1, <1>4, RunningFrame DEF ReturnToCaller, IInv, TypeOK
  <2>2. /\ frames' \in Seq(CallFrame) /\ Len(frames') = n - 1
        /\ \A i \in 1..(n - 1) : frames'[i] = frames[i]
    BY <2>1, SubSeqProperties
  <2>3. frames' # <<>>
    <3>1. Len(frames') # 0
      BY <2>1, <2>2
    <3> HIDE DEF n
    <3> QED
      BY <3>1
  <2>4. WindowsInBounds'
    <3>1. n - 1 =< MaxFrames
      BY <2>1, SizeAssumption DEF IInv, WindowsInBounds
    <3>2. \A i \in 1..(n - 1) : frames'[i].base + Slots(frames'[i].fn) =< StackCapacity
      BY <2>1, <2>2 DEF IInv, WindowsInBounds
    <3> QED
      BY <2>1, <2>2, <3>1, <3>2 DEF WindowsInBounds, Slots, Image
  <2>5. CallChain'
    <3>1. SUFFICES ASSUME NEW i \in 1..(n - 2)
          PROVE  /\ frames'[i].ip - 1 \in DOMAIN CodeOf(frames'[i].fn)
                 /\ PendingCall(i)'.op = "CALL"
                 /\ frames'[i + 1].base = frames'[i].base + PendingCall(i)'.c
                 /\ frames'[i + 1].out = PendingCall(i)'.a
                 /\ Image(frames'[i + 1].fn).arity = PendingCall(i)'.d
      BY <2>1, <2>2 DEF CallChain, CodeOf, Image
    <3>2. i \in 1..(n - 1) /\ frames'[i] = frames[i] /\ frames'[i + 1] = frames[i + 1]
      <4>1. i \in 1..(n - 1) /\ i + 1 \in 1..(n - 1)
        BY <2>1
      <4> QED
        BY <2>2, <4>1
    <3>3. PendingCall(i)' = PendingCall(i)
      BY <2>1, <3>2 DEF PendingCall, CodeOf, Image
    <3> QED
      BY <3>2, <3>3 DEF IInv, CallChain
  <2>6. stack' \in [0..(StackCapacity - 1) -> Value]
    BY <1>2, <2>1 DEF IInv, TypeOK
  <2>7. TypeOK'
    BY <2>1, <2>2, <2>6 DEF IInv, TypeOK
  <2> QED
    BY <2>1, <2>3, <2>4, <2>5, <2>7 DEF IInv, Running
<1> QED
  BY <1>3, <1>4

-----------------------------------------------------------------------------
(***************************************************************************)
(* The host.                                                               *)
(***************************************************************************)
\* A new execution starts with one frame at the bottom of the stack.
LEMMA ExecuteKeeps ==
  ASSUME IInv, HostTurn, NEW fn \in Func, Execute(fn)
  PROVE  IInv'
<1>1. Slots(fn) \in 1..StackCapacity /\ Image(fn).module_id \in ModuleId
  BY ImagesWellFormed DEF IInv, ModuleId
<1>2. makeNil \in Value
  BY MadeValues
<1>3. CASE CodeOf(fn) = <<>> /\ status' = "ok" /\ UNCHANGED frames
  <2>1. TypeOK'
    BY <1>1, <1>2, <1>3 DEF Execute, IInv, TypeOK
  <2>2. WindowsInBounds' /\ CallChain'
    BY <1>3 DEF Execute, IInv, WindowsInBounds, CallChain, PendingCall, Slots, Image, CodeOf
  <2> QED
    BY <1>3, <2>1, <2>2 DEF Execute, IInv, Running
<1>4. CASE frames' = <<[fn |-> fn, ip |-> 1, base |-> 0, out |-> 0]>> /\ status' = "running"
  <2>1. [fn |-> fn, ip |-> 1, base |-> 0, out |-> 0] \in CallFrame
    BY SizeAssumption DEF CallFrame
  <2>2. frames' \in Seq(CallFrame) /\ Len(frames') = 1 /\ frames' # <<>>
    BY <1>4, <2>1
  <2>3. TypeOK'
    BY <1>1, <1>2, <1>4, <2>2 DEF Execute, IInv, TypeOK
  <2>4. WindowsInBounds'
    <3>1. frames'[1].base = 0 /\ frames'[1].fn = fn
      BY <1>4
    <3>2. Slots(fn)' = Slots(fn)
      BY DEF Execute, Slots, Image
    <3>3. 0 + Slots(fn) =< StackCapacity /\ 1 =< MaxFrames
      BY <1>1, SizeAssumption
    <3> QED
      BY <2>2, <3>1, <3>2, <3>3 DEF WindowsInBounds, Slots, Image
  <2>5. CallChain'
    BY <2>2 DEF CallChain
  <2> QED
    BY <2>2, <2>3, <2>4, <2>5 DEF Execute, IInv, Running
<1> QED
  BY <1>3, <1>4 DEF Execute

\* Running a chunk, or a global function if there is one.
LEMMA HostKeeps ==
  ASSUME IInv, Host
  PROVE  IInv'
<1>1. CASE \E c \in Script : executeChunk(c)
  BY <1>1, ExecuteKeeps, ProgramAssumption DEF executeChunk
<1>2. CASE \E k \in GlobalKey : executeFunction(k)
  <2>1. PICK k \in GlobalKey : executeFunction(k)
    BY <1>2
  <2>2. CASE Fail
    BY <2>2, StopKeeps DEF Fail
  <2>3. CASE k \in DOMAIN globals /\ Execute(globals[k])
    BY <2>1, <2>3, ExecuteKeeps DEF executeFunction, IInv, TypeOK
  <2> QED
    BY <2>1, <2>2, <2>3 DEF executeFunction
<1> QED
  BY <1>1, <1>2 DEF Host

-----------------------------------------------------------------------------
(***************************************************************************)
(* The invariant.                                                          *)
(***************************************************************************)
\* A new VM satisfies the invariant.
LEMMA InitEstablishes == Init => IInv
<1> SUFFICES ASSUME Init PROVE IInv
  OBVIOUS
<1>1. makeNil \in Value
  BY MadeValues
<1>2. frames \in Seq(CallFrame) /\ Len(frames) = 0
  BY DEF Init
<1>3. TypeOK
  BY <1>1, <1>2 DEF Init, TypeOK, ModuleId
<1>4. WindowsInBounds /\ CallChain
  BY <1>2, SizeAssumption DEF WindowsInBounds, CallChain
<1> QED
  BY <1>3, <1>4 DEF Init, IInv, Running

\* Every step keeps it.
LEMMA NextKeeps == IInv /\ [Next]_vars => IInv'
<1> SUFFICES ASSUME IInv, [Next]_vars PROVE IInv'
  OBVIOUS
<1>1. CASE UNCHANGED vars
  BY <1>1 DEF vars, IInv, TypeOK, WindowsInBounds, CallChain, Running, PendingCall, Slots,
              Image, CodeOf
<1>2. CASE LoadConst \/ LoadLiteral \/ Move \/ Unary \/ Binary
  BY <1>2, ComputeKeeps
<1>3. CASE Jump \/ Loop \/ Branch \/ BadFetch
  BY <1>3, ControlKeeps
<1>4. CASE DefineGlobal \/ GetGlobal \/ SetGlobal
  BY <1>4, GlobalsKeep
<1>5. CASE Call
  BY <1>5, CallKeeps
<1>6. CASE ReturnToHost \/ ReturnToCaller
  BY <1>6, ReturnKeeps
<1>7. CASE Host
  BY <1>7, HostKeeps
<1> QED
  BY <1>1, <1>2, <1>3, <1>4, <1>5, <1>6, <1>7 DEF Next, Step

\* The inductive invariant holds of every run.
THEOREM Invariance == Spec => []IInv
  BY InitEstablishes, NextKeeps, PTL DEF Spec

\* Registers hold Values, frames are frames, and the tables map names to
\* functions and to struct blueprints, whatever well-formed code does.
THEOREM TypeCorrect == Spec => []TypeOK
<1>1. IInv => TypeOK
  BY DEF IInv
<1> QED
  BY <1>1, Invariance, PTL

\* OP_CALL's two tests suffice: no frame of any call ever maps a window that
\* leaves the stack, however deep the calls and whatever the programs.
THEOREM WindowsStayInside == Spec => []WindowsInBounds
<1>1. IInv => WindowsInBounds
  BY DEF IInv
<1> QED
  BY <1>1, Invariance, PTL

\* Every suspended frame waits right behind the call that entered the frame
\* above it, so that OP_RETURN's receiver is that call's own.
THEOREM CallsMatchReturns == Spec => []CallChain
<1>1. IInv => CallChain
  BY DEF IInv
<1> QED
  BY <1>1, Invariance, PTL

-----------------------------------------------------------------------------
(***************************************************************************)
(* The end of the process.                                                 *)
(***************************************************************************)
\* The only step that traps is a binary opcode whose operands do.
LEMMA TrapStep ==
  ASSUME IInv, [Next]_vars, status' = "trapped"
  PROVE  \/ UNCHANGED vars
         \/ Binary /\ Stop("trapped") /\ Trap \in BinaryOutcomes(Ins.op, Reg(Ins.b), Reg(Ins.c))
<1>1. CASE UNCHANGED vars
  BY <1>1
<1>2. CASE LoadConst \/ LoadLiteral \/ Move
  BY <1>2 DEF LoadConst, LoadLiteral, Move, At, SetReg, Fail, Stop
<1>3. CASE Unary
  <2>1. PICK o \in UnaryOutcomes(Ins.op, Reg(Ins.b)) : Finish(Ins.a, o)
    BY <1>3 DEF Unary
  <2>2. o # Trap
    BY <2>1, UnaryNeverTraps
  <2>3. status = "running"
    BY <1>3 DEF Unary, At
  <2> QED
    BY <2>1, <2>2, <2>3 DEF Finish, SetReg, Fail, Stop
<1>4. CASE Binary
  <2>1. PICK o \in BinaryOutcomes(Ins.op, Reg(Ins.b), Reg(Ins.c)) : Finish(Ins.a, o)
    BY <1>4 DEF Binary
  <2>2. status = "running"
    BY <1>4 DEF Binary, At
  <2>3. o = Trap /\ Stop("trapped")
    BY <2>1, <2>2 DEF Finish, SetReg, Fail, Stop
  <2> QED
    BY <1>4, <2>1, <2>3
<1>5. CASE Jump \/ Loop \/ Branch
  BY <1>5 DEF Jump, Loop, Branch, At, Redirect, Fail, Stop
<1>6. CASE DefineGlobal \/ GetGlobal \/ SetGlobal
  BY <1>6 DEF DefineGlobal, GetGlobal, SetGlobal, At, Define, SetReg, Fail, Stop
<1>7. CASE Call
  BY <1>7 DEF Call, At, Fail, Stop
<1>8. CASE ReturnToHost \/ ReturnToCaller
  BY <1>8 DEF ReturnToHost, ReturnToCaller, At
<1>9. CASE BadFetch
  BY <1>9 DEF BadFetch, Fail, Stop
<1>10. CASE Host
  BY <1>10 DEF Host, executeChunk, executeFunction, HostTurn, Execute, Fail, Stop
<1> QED
  BY <1>1, <1>2, <1>3, <1>4, <1>5, <1>6, <1>7, <1>8, <1>9, <1>10 DEF Next, Step

LEMMA TrapKept ==
  ASSUME IInv, TrapOnlyAtMinByMinusOne, [Next]_vars
  PROVE  TrapOnlyAtMinByMinusOne'
<1> SUFFICES ASSUME status' = "trapped" PROVE TrapOnlyAtMinByMinusOne'
  BY DEF TrapOnlyAtMinByMinusOne
<1>1. CASE UNCHANGED vars
  BY <1>1 DEF vars, TrapOnlyAtMinByMinusOne, Ins, Reg, Code, CodeOf, Image, currentFrame
<1>2. CASE Binary /\ Stop("trapped") /\ Trap \in BinaryOutcomes(Ins.op, Reg(Ins.b), Reg(Ins.c))
  <2>1. status = "running" /\ currentFrame.ip =< Len(Code) /\ Ins.op \in BinaryOp
    BY <1>2 DEF Binary, At
  <2>2. Ins.b \in Nat /\ Ins.c \in Nat
    BY <2>1, InsTyped
  <2>3. Ins.b \in RegisterOperands(Ins) /\ Ins.c \in RegisterOperands(Ins)
    BY <2>1 DEF RegisterOperands, BinaryOp, UnaryOp, IntArith, IntCompare, FloatCompare, FloatArith, BitOps
  <2>4. Reg(Ins.b) \in Value /\ Reg(Ins.c) \in Value
    BY <2>1, <2>2, <2>3, OperandsAreValues
  <2>5. /\ Ins.op \in {"IDIV", "IMOD"}
        /\ Reg(Ins.b) = makeInt(IntMin) /\ Reg(Ins.c) = makeInt(-1)
    BY <1>2, <2>4, OnlyDivisionTraps
  <2>6. UNCHANGED <<prog, stack, frames>>
    BY <1>2 DEF Stop
  <2> QED
    BY <2>5, <2>6 DEF TrapOnlyAtMinByMinusOne, Ins, Reg, Code, CodeOf, Image, currentFrame
<1> QED
  BY <1>1, <1>2, TrapStep

\* No program kills the process with any opcode but OP_IDIV and OP_IMOD, nor with
\* these but by dividing the smallest word by -1: operands of wrong types, zero
\* divisors, missing constants and names, jumps out of the code and calls without
\* room all end in RUNTIME_ERROR.
THEOREM OnlyMinByMinusOneTraps == Spec => []TrapOnlyAtMinByMinusOne
<1>1. Init => TrapOnlyAtMinByMinusOne
  BY DEF Init, TrapOnlyAtMinByMinusOne
<1> QED
  BY <1>1, Invariance, TrapKept, PTL DEF Spec

-----------------------------------------------------------------------------
(***************************************************************************)
(* The end of the code.                                                    *)
(***************************************************************************)
AllClosed == \A p \in Program : \A f \in Func : Closed(p.func[f].code)

\* What comes after the instruction of the running frame lies in the code.
OnTrack == status = "running" => currentFrame.ip \in DOMAIN Code

LEMMA CodeIsClosed ==
  ASSUME AllClosed, prog \in Program, NEW fn \in Func
  PROVE  /\ Closed(CodeOf(fn))
         /\ CodeOf(fn) \in Seq(Instr) /\ CodeOf(fn) # <<>>
         /\ Len(CodeOf(fn)) \in Nat \ {0} /\ DOMAIN CodeOf(fn) = 1..Len(CodeOf(fn))
<1>1. Closed(CodeOf(fn))
  BY DEF AllClosed, CodeOf, Image
<1>2. CodeOf(fn) \in Seq(Instr) /\ CodeOf(fn) # <<>>
  BY <1>1, ImagesWellFormed DEF Closed
<1> QED
  BY <1>1, <1>2

\* An instruction that goes on is not the last.
LEMMA GoesOn ==
  ASSUME AllClosed, prog \in Program, NEW fn \in Func, NEW ip \in DOMAIN CodeOf(fn),
         CodeOf(fn)[ip].op \notin {"JMP", "LOOP", "RETURN"}
  PROVE  ip + 1 \in DOMAIN CodeOf(fn)
<1>1. ip \in 1..Len(CodeOf(fn)) /\ Len(CodeOf(fn)) \in Nat
  BY CodeIsClosed
<1>2. ip # Len(CodeOf(fn))
  BY CodeIsClosed DEF Closed
<1>3. ip + 1 \in 1..Len(CodeOf(fn))
  BY <1>1, <1>2
<1> QED
  BY <1>3, CodeIsClosed

\* A frame that waits will find an instruction: the one behind its call.
LEMMA CallersAreOnTrack ==
  ASSUME AllClosed, IInv, NEW i \in 1..(Len(frames) - 1)
  PROVE  frames[i].ip \in DOMAIN CodeOf(frames[i].fn)
<1>1. frames \in Seq(CallFrame) /\ Len(frames) \in Nat /\ i \in 1..Len(frames)
  <2>1. frames \in Seq(CallFrame)
    BY DEF IInv, TypeOK
  <2> QED
    BY <2>1, LenProperties
<1>2. frames[i].fn \in Func /\ frames[i].ip \in Nat
  <2>1. frames[i] \in CallFrame
    BY <1>1, ElementOfSeq
  <2> QED
    BY <2>1 DEF CallFrame
<1>3. /\ frames[i].ip - 1 \in DOMAIN CodeOf(frames[i].fn)
      /\ CodeOf(frames[i].fn)[frames[i].ip - 1].op = "CALL"
  BY DEF IInv, CallChain, PendingCall
<1>4. (frames[i].ip - 1) + 1 \in DOMAIN CodeOf(frames[i].fn)
  BY <1>2, <1>3, GoesOn DEF IInv
<1> QED
  BY <1>2, <1>4

\* The running frame moves to another instruction of its code.
LEMMA MovesOn ==
  ASSUME IInv, status = "running", NEW n \in DOMAIN Code, n \in Nat \ {0}, JumpTo(n), UNCHANGED prog
  PROVE  OnTrack'
<1>1. frames \in Seq(CallFrame) /\ frames # <<>> /\ Len(frames) \in Nat \ {0} /\ Len(frames) \in 1..Len(frames)
  BY RunningFrame DEF IInv, TypeOK, Running
<1>2. /\ Len(frames') = Len(frames)
      /\ frames'[Len(frames)].fn = frames[Len(frames)].fn
      /\ frames'[Len(frames)].ip = n
  BY <1>1, MovedFrames DEF JumpTo
<1> QED
  BY <1>2 DEF OnTrack, Code, CodeOf, Image, currentFrame

LEMMA OnTrackKept ==
  ASSUME AllClosed, IInv, OnTrack, [Next]_vars
  PROVE  OnTrack'
<1> SUFFICES ASSUME status' = "running" PROVE OnTrack'
  BY DEF OnTrack
<1>1. CASE UNCHANGED vars
  BY <1>1 DEF vars, OnTrack, Code, CodeOf, Image, currentFrame
<1>2. ASSUME status = "running", ~Fail
      PROVE  /\ currentFrame.ip \in DOMAIN Code /\ currentFrame.fn \in Func /\ currentFrame.ip \in Nat \ {0}
             /\ Ins.op \in {"JMP", "LOOP", "JZ", "JNZ"} => Target(Ins, currentFrame.ip) \in DOMAIN Code
             /\ Ins.op \notin {"JMP", "LOOP", "RETURN"} => currentFrame.ip + 1 \in DOMAIN Code
             /\ \A n \in DOMAIN Code : n \in Nat \ {0}
  <2>1. currentFrame.ip \in DOMAIN Code /\ currentFrame.fn \in Func /\ currentFrame.ip \in Nat \ {0}
    BY <1>2, RunningFrame DEF OnTrack
  <2>2. Closed(Code) /\ DOMAIN Code = 1..Len(Code) /\ Len(Code) \in Nat
    BY <2>1, CodeIsClosed DEF IInv, Code
  <2>3. Ins.op \notin {"JMP", "LOOP", "RETURN"} => currentFrame.ip + 1 \in DOMAIN Code
    BY <2>1, GoesOn DEF IInv, Code, Ins
  <2> QED
    BY <2>1, <2>2, <2>3 DEF Closed, Ins
<1>3. ~Fail /\ ~Stop("trapped")
  BY DEF Fail, Stop
<1>4. ASSUME status = "running", NextIp, UNCHANGED prog, Ins.op \notin {"JMP", "LOOP", "RETURN"}
      PROVE  OnTrack'
  BY <1>2, <1>3, <1>4, MovesOn DEF NextIp
<1>5. CASE LoadConst \/ LoadLiteral \/ Move \/ Unary \/ Binary
  <2>1. status = "running" /\ NextIp /\ UNCHANGED prog
    BY <1>3, <1>5 DEF LoadConst, LoadLiteral, Move, Unary, Binary, At, Finish, SetReg
  <2>2. Ins.op \notin {"JMP", "LOOP", "RETURN"}
    BY <1>5 DEF LoadConst, LoadLiteral, Move, Unary, Binary, At, UnaryOp, BinaryOp, IntArith, IntCompare,
                FloatCompare, FloatArith, BitOps
  <2> QED
    BY <1>4, <2>1, <2>2
<1>6. CASE Jump \/ Loop \/ Branch
  <2>1. status = "running" /\ UNCHANGED prog
    BY <1>3, <1>6 DEF Jump, Loop, Branch, At, Redirect
  <2>2. CASE Jump \/ Loop
    <3>1. JumpTo(Target(Ins, currentFrame.ip)) /\ Ins.op \in {"JMP", "LOOP"}
      BY <1>3, <2>2 DEF Jump, Loop, At, Redirect, Target
    <3> QED
      BY <1>2, <1>3, <2>1, <3>1, MovesOn
  <2>3. CASE Branch /\ Taken
    <3>1. JumpTo(Target(Ins, currentFrame.ip)) /\ Ins.op \in {"JZ", "JNZ"}
      BY <1>3, <2>3 DEF Branch, At, Redirect, Target
    <3> QED
      BY <1>2, <1>3, <2>1, <3>1, MovesOn
  <2>4. CASE Branch /\ ~Taken
    <3>1. JumpTo(currentFrame.ip + 1 + 0) /\ Ins.op \in {"JZ", "JNZ"}
      BY <1>3, <2>4 DEF Branch, At, Redirect
    <3>2. currentFrame.ip + 1 + 0 = currentFrame.ip + 1
      BY <1>2, <1>3, <2>1
    <3> QED
      BY <1>4, <2>1, <3>1, <3>2 DEF NextIp
  <2> QED
    BY <1>6, <2>2, <2>3, <2>4
<1>7. CASE DefineGlobal \/ GetGlobal \/ SetGlobal
  <2>1. status = "running" /\ NextIp /\ UNCHANGED prog /\ Ins.op \in {"DEFINE_GLOBAL", "GET_GLOBAL", "SET_GLOBAL"}
    BY <1>3, <1>7 DEF DefineGlobal, GetGlobal, SetGlobal, At, Define, SetReg
  <2> QED
    BY <1>4, <2>1
<1>8. CASE Call
  <2> DEFINE callee == Reg(Ins.b).as
             moved  == [frames EXCEPT ![Len(frames)].ip = @ + 1]
             frame  == [fn |-> callee, ip |-> 1, base |-> currentFrame.base + Ins.c, out |-> Ins.a]
  <2>1. callee \in Func /\ frames' = Append(moved, frame) /\ UNCHANGED prog /\ status = "running"
    BY <1>3, <1>8 DEF Call, At, isFunction
  <2>2. moved \in Seq(CallFrame)
    <3>1. currentFrame.ip + 1 \in Nat \ {0} /\ Len(frames) \in DOMAIN frames /\ frames \in Seq(CallFrame) /\ frames # <<>>
      BY <2>1, RunningFrame DEF IInv, TypeOK, Running
    <3>2. moved = [frames EXCEPT ![Len(frames)].ip = currentFrame.ip + 1]
      BY <3>1 DEF currentFrame
    <3> QED
      BY <3>1, <3>2, MovedFrames
  <2> HIDE DEF moved
  <2>3. frames'[Len(frames')] = frame
    <3> HIDE DEF frame
    <3> QED
      BY <2>1, <2>2, AppendProperties
  <2>4. 1 \in DOMAIN CodeOf(callee)
    BY <2>1, CodeIsClosed DEF IInv
  <2> QED
    BY <2>1, <2>3, <2>4 DEF OnTrack, Code, CodeOf, Image, currentFrame
<1>9. CASE ReturnToCaller
  <2> DEFINE N == Len(frames) - 1
  <2>1. frames' = SubSeq(frames, 1, N) /\ UNCHANGED prog /\ Len(frames) > 1
    BY <1>9 DEF ReturnToCaller
  <2>2. frames \in Seq(CallFrame) /\ Len(frames) \in Nat
    BY LenProperties DEF IInv, TypeOK
  <2>3. N \in 1..N /\ Len(frames') = N /\ frames'[N] = frames[N]
    BY <2>1, <2>2
  <2>4. frames[N].ip \in DOMAIN CodeOf(frames[N].fn)
    BY <2>3, CallersAreOnTrack
  <2> QED
    BY <2>1, <2>3, <2>4 DEF OnTrack, Code, CodeOf, Image, currentFrame
<1>10. CASE ReturnToHost \/ BadFetch
  BY <1>3, <1>10 DEF ReturnToHost, BadFetch
<1>11. CASE Host
  <2>1. PICK fn \in Func : Execute(fn)
    <3>1. CASE \E c \in Script : executeChunk(c)
      BY <3>1, ProgramAssumption DEF executeChunk
    <3>2. CASE \E k \in GlobalKey : executeFunction(k)
      BY <1>3, <3>2 DEF executeFunction, IInv, TypeOK
    <3> QED
      BY <1>11, <3>1, <3>2 DEF Host
  <2>2. frames' = <<[fn |-> fn, ip |-> 1, base |-> 0, out |-> 0]>> /\ UNCHANGED prog
    BY <2>1 DEF Execute
  <2>3. currentFrame'.fn = fn /\ currentFrame'.ip = 1
    BY <2>2 DEF currentFrame
  <2>4. 1 \in DOMAIN CodeOf(fn)
    BY CodeIsClosed DEF IInv
  <2> QED
    BY <2>2, <2>3, <2>4 DEF OnTrack, Code, CodeOf, Image
<1> QED
  BY <1>1, <1>5, <1>6, <1>7, <1>8, <1>9, <1>10, <1>11 DEF Next, Step

LEMMA AllFramesOnTrack ==
  ASSUME AllClosed, IInv, OnTrack
  PROVE  NeverAstray
<1> SUFFICES ASSUME status = "running", NEW i \in DOMAIN frames
             PROVE  frames[i].ip \in DOMAIN CodeOf(frames[i].fn)
  BY DEF NeverAstray
<1>1. Len(frames) \in Nat /\ DOMAIN frames = 1..Len(frames)
  BY LenProperties DEF IInv, TypeOK
<1>2. CASE i = Len(frames)
  BY <1>2 DEF OnTrack, Code, currentFrame
<1>3. CASE i # Len(frames)
  <2>1. i \in 1..(Len(frames) - 1)
    BY <1>1, <1>3
  <2> QED
    BY <2>1, CallersAreOnTrack
<1> QED
  BY <1>2, <1>3

\* When every function is closed, as lowering makes it, no run ever leaves the
\* code: the fetch that comes next finds an instruction, and so does that of every
\* caller when it is returned to.  The VM's test for running off the end, and the
\* two bounds of its jumps, then never fire.
THEOREM ClosedCodeIsNeverLeft ==
  ASSUME \A p \in Program : \A f \in Func : Closed(p.func[f].code)
  PROVE  Spec => []NeverAstray
<1>1. AllClosed
  BY DEF AllClosed
<1>2. Init => OnTrack
  BY DEF Init, OnTrack
<1>3. IInv /\ OnTrack /\ [Next]_vars => OnTrack'
  BY <1>1, OnTrackKept
<1>4. IInv /\ OnTrack => NeverAstray
  BY <1>1, AllFramesOnTrack
<1> QED
  BY <1>2, <1>3, <1>4, Invariance, PTL DEF Spec

-----------------------------------------------------------------------------
(***************************************************************************)
(* NikiVM implements CallContract: activations that only share what a call *)
(* passes are what the windows sliding over one stack amount to.           *)
(*                                                                         *)
(* What makes it so is that windows never start below the ones they were   *)
(* entered from, so that whatever the running frame writes lies above what *)
(* every suspended frame can rely on.                                      *)
(***************************************************************************)
\* A frame starts nowhere below the frames that wait for it.
BasesRise ==
  \A i, j \in 1..Len(frames) : i =< j => frames[i].base =< frames[j].base

CInv == IInv /\ BasesRise

\* The running frame moves on and writes nothing below its window.
Moved ==
  /\ status = "running" /\ status' = "running"
  /\ UNCHANGED <<prog, result>>
  /\ Len(frames') = Len(frames)
  /\ \A i \in 1..Len(frames) :
       /\ frames'[i].fn = frames[i].fn
       /\ frames'[i].base = frames[i].base
       /\ frames'[i].out = frames[i].out
  /\ \A x \in 0..(StackCapacity - 1) : x < currentFrame.base => stack'[x] = stack[x]

\* The loop is left without a value.
Left == Stop("error") \/ Stop("trapped")

\* OP_CALL enters a function.
Entered ==
  LET callee  == Reg(Ins.b)
      newBase == currentFrame.base + Ins.c
  IN
  /\ At({"CALL"}) /\ isFunction(callee) /\ CallAllowed(callee.as, Ins.d, newBase)
  /\ frames' = Append([frames EXCEPT ![Len(frames)].ip = currentFrame.ip + 1],
                      [fn |-> callee.as, ip |-> 1, base |-> newBase, out |-> Ins.a])
  /\ UNCHANGED <<prog, stack, globals, global_objects, module_id, status, result>>

-----------------------------------------------------------------------------
(***************************************************************************)
(* The shapes of a step.                                                   *)
(***************************************************************************)
\* Moving the running frame on.
LEMMA JumpMoves ==
  ASSUME IInv, status = "running", NEW n \in Nat \ {0}, JumpTo(n),
         UNCHANGED <<prog, stack, status, result>>
  PROVE  Moved
<1>1. frames \in Seq(CallFrame) /\ frames # <<>>
  BY DEF IInv, TypeOK, Running
<1>2. /\ Len(frames') = Len(frames)
      /\ \A i \in 1..Len(frames) :
           /\ frames'[i].fn = frames[i].fn
           /\ frames'[i].base = frames[i].base
           /\ frames'[i].out = frames[i].out
  BY <1>1, MovedFrames DEF JumpTo
<1> QED
  BY <1>2 DEF Moved

\* Writing one of its registers.
LEMMA SetRegMoves ==
  ASSUME IInv, status = "running", NEW r \in Nat, NEW v, SetReg(r, v)
  PROVE  Moved
<1>1. frames \in Seq(CallFrame) /\ frames # <<>>
  BY DEF IInv, TypeOK, Running
<1>2. currentFrame.ip + 1 \in Nat \ {0} /\ currentFrame.base \in Nat
  BY RunningFrame
<1>3. /\ Len(frames') = Len(frames)
      /\ \A i \in 1..Len(frames) :
           /\ frames'[i].fn = frames[i].fn
           /\ frames'[i].base = frames[i].base
           /\ frames'[i].out = frames[i].out
  BY <1>1, <1>2, MovedFrames DEF SetReg, NextIp, JumpTo
<1>4. \A x \in 0..(StackCapacity - 1) : x < currentFrame.base => stack'[x] = stack[x]
  BY <1>2 DEF SetReg, IInv, TypeOK
<1> QED
  BY <1>3, <1>4 DEF Moved, SetReg

\* Jumping, or refusing to.
LEMMA RedirectMoves ==
  ASSUME IInv, status = "running", NEW n, Redirect(n)
  PROVE  Moved \/ Left
<1>1. CASE Fail
  BY <1>1 DEF Fail, Stop, Left
<1>2. CASE /\ n \in 1..(Len(Code) + 1)
           /\ JumpTo(n)
           /\ UNCHANGED <<prog, stack, globals, global_objects, module_id, status, result>>
  <2>1. n \in Nat \ {0}
    BY <1>2
  <2> QED
    BY <1>2, <2>1, JumpMoves
<1> QED
  BY <1>1, <1>2 DEF Redirect

\* Defining a global symbol.
LEMMA DefineMoves ==
  ASSUME IInv, status = "running", NEW k, NEW o, Define(k, o)
  PROVE  Moved \/ Left
<1>1. CASE Fail
  BY <1>1 DEF Fail, Stop, Left
<1>2. CASE NextIp /\ UNCHANGED <<prog, stack, status, result>>
  <2>1. currentFrame.ip + 1 \in Nat \ {0}
    BY RunningFrame
  <2> QED
    BY <1>2, <2>1, JumpMoves DEF NextIp
<1> QED
  BY <1>1, <1>2 DEF Define

\* Every opcode moves on, calls, returns, or leaves the loop.
LEMMA StepShapes ==
  ASSUME IInv, Step
  PROVE  Moved \/ Left \/ Entered \/ ReturnToHost \/ ReturnToCaller
<1>1. CASE Fail
  BY <1>1 DEF Fail, Stop, Left
<1>2. CASE LoadConst \/ LoadLiteral \/ Move \/ Unary \/ Binary \/ GetGlobal
  <2>1. status = "running" /\ currentFrame.ip =< Len(Code)
    BY <1>2 DEF LoadConst, LoadLiteral, Move, Unary, Binary, GetGlobal, At
  <2>2. Ins.a \in Nat
    BY <2>1, InsTyped
  <2>3. \/ \E v : SetReg(Ins.a, v)
        \/ Fail \/ Stop("trapped")
    BY <1>2, Zenon DEF LoadConst, LoadLiteral, Move, Unary, Binary, GetGlobal, Finish
  <2>4. CASE \E v : SetReg(Ins.a, v)
    BY <2>1, <2>2, <2>4, SetRegMoves
  <2>5. CASE Fail \/ Stop("trapped")
    BY <2>5 DEF Fail, Stop, Left
  <2> QED
    BY <2>3, <2>4, <2>5
<1>3. CASE Jump \/ Loop \/ Branch
  BY <1>3, RedirectMoves DEF Jump, Loop, Branch, At
<1>4. CASE DefineGlobal \/ SetGlobal
  <2>1. status = "running"
    BY <1>4 DEF DefineGlobal, SetGlobal, At
  <2>2. Fail \/ \E k, o : Define(k, o)
    BY <1>4, Zenon DEF DefineGlobal, SetGlobal
  <2> QED
    BY <1>1, <2>1, <2>2, DefineMoves
<1>5. CASE Call
  BY <1>1, <1>5 DEF Call, Entered, currentFrame
<1>6. CASE BadFetch
  BY <1>1, <1>6 DEF BadFetch
<1> QED
  BY <1>2, <1>3, <1>4, <1>5, <1>6 DEF Step

-----------------------------------------------------------------------------
(***************************************************************************)
(* The stronger invariant.                                                 *)
(***************************************************************************)
\* What OP_CALL does to the frames.
LEMMA EnteredFrames ==
  ASSUME IInv, Entered
  PROVE  /\ Len(frames) \in Nat \ {0}
         /\ currentFrame.base \in Nat /\ Ins.a \in Nat /\ Ins.c \in Nat
         /\ Len(frames') = Len(frames) + 1
         /\ \A i \in 1..Len(frames) :
              /\ frames'[i].fn = frames[i].fn
              /\ frames'[i].base = frames[i].base
              /\ frames'[i].out = frames[i].out
         /\ frames'[Len(frames) + 1] =
              [fn |-> Reg(Ins.b).as, ip |-> 1, base |-> currentFrame.base + Ins.c, out |-> Ins.a]
<1> DEFINE n     == Len(frames)
           moved == [frames EXCEPT ![n].ip = currentFrame.ip + 1]
           new   == [fn |-> Reg(Ins.b).as, ip |-> 1, base |-> currentFrame.base + Ins.c,
                     out |-> Ins.a]
<1>1. status = "running" /\ currentFrame.ip =< Len(Code)
  BY DEF Entered, At
<1>2. /\ n \in Nat \ {0} /\ frames \in Seq(CallFrame) /\ frames # <<>>
      /\ currentFrame.base \in Nat /\ currentFrame.ip + 1 \in Nat \ {0}
  BY <1>1, RunningFrame DEF IInv, TypeOK, Running
<1>3. Ins.a \in Nat /\ Ins.c \in Nat
  BY <1>1, InsTyped
<1>4. /\ moved \in Seq(CallFrame) /\ Len(moved) = n
      /\ \A i \in 1..n : /\ moved[i].fn = frames[i].fn
                         /\ moved[i].base = frames[i].base
                         /\ moved[i].out = frames[i].out
  BY <1>2, MovedFrames
<1>5. frames' = Append(moved, new)
  BY DEF Entered
<1>6. Len(frames') = n + 1 /\ (\A i \in 1..n : frames'[i] = moved[i]) /\ frames'[n + 1] = new
  <2> HIDE DEF moved, new
  <2> QED
    BY <1>2, <1>4, <1>5
<1> QED
  BY <1>2, <1>3, <1>4, <1>6

\* What OP_RETURN does to them.
LEMMA LeftFrames ==
  ASSUME IInv, ReturnToCaller
  PROVE  /\ Len(frames) \in Nat /\ Len(frames) > 1
         /\ Len(frames') = Len(frames) - 1
         /\ \A i \in 1..(Len(frames) - 1) : frames'[i] = frames[i]
<1>1. frames \in Seq(CallFrame) /\ Len(frames) \in Nat /\ Len(frames) > 1
  BY DEF IInv, TypeOK, ReturnToCaller
<1> QED
  BY <1>1, SubSeqProperties DEF ReturnToCaller

\* Frames are never entered below the frames that wait for them.
LEMMA BasesStayRising ==
  ASSUME CInv, [Next]_vars
  PROVE  BasesRise'
<1>0. frames \in Seq(CallFrame) /\ Len(frames) \in Nat
      /\ \A i \in 1..Len(frames) : frames[i].base \in Nat
  <2>1. frames \in Seq(CallFrame)
    BY DEF CInv, IInv, TypeOK
  <2>2. \A i \in 1..Len(frames) : frames[i] \in CallFrame
    BY <2>1, ElementOfSeq
  <2> QED
    BY <2>1, <2>2, SizeAssumption DEF CallFrame
<1>1. CASE UNCHANGED frames
  BY <1>1 DEF CInv, BasesRise
<1>2. CASE Moved
  BY <1>0, <1>2 DEF CInv, BasesRise, Moved
<1>3. CASE Entered
  <2>1. /\ Len(frames) \in Nat \ {0} /\ currentFrame.base \in Nat /\ Ins.c \in Nat
        /\ Len(frames') = Len(frames) + 1
        /\ \A i \in 1..Len(frames) : frames'[i].base = frames[i].base
        /\ frames'[Len(frames) + 1].base = currentFrame.base + Ins.c
    BY <1>3, EnteredFrames DEF CInv
  <2>2. \A i \in 1..Len(frames) : frames[i].base =< currentFrame.base
    BY <2>1 DEF CInv, BasesRise, currentFrame
  <2>3. SUFFICES ASSUME NEW i \in 1..(Len(frames) + 1), NEW j \in 1..(Len(frames) + 1), i =< j
        PROVE  frames'[i].base =< frames'[j].base
    BY <2>1 DEF BasesRise
  <2>4. CASE j =< Len(frames)
    <3>1. i \in 1..Len(frames) /\ j \in 1..Len(frames)
      BY <2>1, <2>3, <2>4
    <3>2. frames[i].base =< frames[j].base
      BY <2>3, <3>1 DEF CInv, BasesRise
    <3> QED
      BY <2>1, <3>1, <3>2
  <2>5. CASE j = Len(frames) + 1 /\ i =< Len(frames)
    <3>1. i \in 1..Len(frames)
      BY <2>1, <2>5
    <3>2. PICK low \in Nat, mid \in Nat, step \in Nat :
            low = frames[i].base /\ mid = currentFrame.base /\ step = Ins.c /\ low =< mid
      BY <1>0, <2>1, <2>2, <3>1
    <3>3. frames'[i].base = low /\ frames'[j].base = mid + step
      BY <2>1, <2>5, <3>1, <3>2
    <3>4. low =< mid + step
      BY <3>2
    <3> QED
      BY <3>3, <3>4
  <2>6. CASE i = Len(frames) + 1 /\ j = Len(frames) + 1
    <3>1. PICK base \in Nat : base = currentFrame.base + Ins.c
      BY <2>1
    <3>2. frames'[i].base = base /\ frames'[j].base = base
      BY <2>1, <2>6, <3>1
    <3> QED
      BY <3>1, <3>2
  <2> QED
    BY <2>1, <2>3, <2>4, <2>5, <2>6
<1>4. CASE ReturnToCaller
  <2>1. /\ Len(frames) \in Nat /\ Len(frames') = Len(frames) - 1
        /\ \A i \in 1..(Len(frames) - 1) : frames'[i] = frames[i]
    BY <1>4, LeftFrames DEF CInv
  <2>2. SUFFICES ASSUME NEW i \in 1..(Len(frames) - 1), NEW j \in 1..(Len(frames) - 1), i =< j
        PROVE  frames'[i].base =< frames'[j].base
    BY <2>1 DEF BasesRise
  <2>3. i \in 1..Len(frames) /\ j \in 1..Len(frames)
    BY <2>1
  <2> QED
    BY <2>1, <2>2, <2>3 DEF CInv, BasesRise
<1>5. CASE ReturnToHost
  <2>1. currentFrame.ip + 1 \in Nat \ {0} /\ frames # <<>>
    BY <1>5, RunningFrame DEF ReturnToHost, At, CInv, IInv, Running
  <2>2. Len(frames') = Len(frames) /\ \A i \in 1..Len(frames) : frames'[i].base = frames[i].base
    BY <1>0, <1>5, <2>1, MovedFrames DEF ReturnToHost, NextIp, JumpTo
  <2> QED
    BY <2>2 DEF CInv, BasesRise
<1>6. CASE Host
  <2>1. UNCHANGED frames \/ \E fn : frames' = <<[fn |-> fn, ip |-> 1, base |-> 0, out |-> 0]>>
    BY <1>6, Zenon DEF Host, executeChunk, executeFunction, Execute, Fail, Stop
  <2>2. CASE \E fn : frames' = <<[fn |-> fn, ip |-> 1, base |-> 0, out |-> 0]>>
    BY <2>2 DEF BasesRise
  <2> QED
    BY <1>1, <2>1, <2>2
<1>7. CASE Step
  <2>1. CASE Left
    BY <1>1, <2>1 DEF Left, Stop
  <2> QED
    BY <1>2, <1>3, <1>4, <1>5, <1>7, <2>1, StepShapes DEF CInv
<1> QED
  BY <1>1, <1>6, <1>7 DEF Next, vars

\* The stronger invariant holds of every run.
LEMMA StrongInvariance == Spec => []CInv
<1>1. Init => CInv
  <2>1. Init => BasesRise
    BY DEF Init, BasesRise
  <2> QED
    BY <2>1, InitEstablishes DEF CInv
<1>2. CInv /\ [Next]_vars => CInv'
  BY NextKeeps, BasesStayRising DEF CInv
<1> QED
  BY <1>1, <1>2, PTL DEF Spec

-----------------------------------------------------------------------------
(***************************************************************************)
(* What the frames stand for.                                              *)
(***************************************************************************)
\* There is an activation for each frame.
LEMMA ActivationsOfFrames ==
  ASSUME CInv, status = "running"
  PROVE  /\ Len(Activations) = Len(frames)
         /\ \A i \in 1..Len(frames) : Activations[i] = ActivationOf(i)
<1>1. Len(frames) \in Nat
  BY RunningFrame DEF CInv
<1>2. Activations = [i \in 1..Len(frames) |-> ActivationOf(i)]
  BY DEF Activations
<1> HIDE DEF Activations
<1> QED
  BY <1>1, <1>2

\* A frame's registers start in the stack, and it has at least one.
LEMMA FramesTyped ==
  ASSUME CInv, NEW i \in 1..Len(frames)
  PROVE  /\ frames[i].fn \in Func
         /\ frames[i].base \in 0..(StackCapacity - 1)
         /\ Slots(frames[i].fn) \in 1..StackCapacity
         /\ frames[i].base + Slots(frames[i].fn) =< StackCapacity
<1>1. frames[i] \in CallFrame
  BY ElementOfSeq DEF CInv, IInv, TypeOK
<1>2. frames[i].fn \in Func /\ frames[i].base \in 0..(StackCapacity - 1)
  BY <1>1 DEF CallFrame
<1> QED
  BY <1>2, ImagesWellFormed DEF CInv, IInv, WindowsInBounds

\* What a suspended frame can rely on is all inside its own window, and ends
\* where the call it waits for put the next window.
LEMMA ReliableOfSuspended ==
  ASSUME CInv, NEW i \in 1..(Len(frames) - 1)
  PROVE  /\ Reliable(i) = PendingCall(i).c
         /\ Reliable(i) \in Nat /\ Reliable(i) < Slots(frames[i].fn)
         /\ frames[i + 1].base = frames[i].base + Reliable(i)
         /\ frames[i + 1].out \in Nat /\ frames[i + 1].out < Slots(frames[i].fn)
<1>1. i \in 1..Len(frames) /\ i # Len(frames) /\ i + 1 \in 1..Len(frames) /\ i + 1 # i
  BY DEF CInv, IInv, TypeOK
<1>2. /\ frames[i].fn \in Func /\ frames[i].base \in Nat
  BY <1>1, FramesTyped, SizeAssumption
<1>3. /\ frames[i].ip - 1 \in DOMAIN CodeOf(frames[i].fn)
      /\ PendingCall(i).op = "CALL"
      /\ frames[i + 1].base = frames[i].base + PendingCall(i).c
      /\ frames[i + 1].out = PendingCall(i).a
  BY DEF CInv, IInv, CallChain
<1>4. WellFormed(Image(frames[i].fn)) /\ CodeOf(frames[i].fn) \in Seq(Instr)
  BY <1>2, ImagesWellFormed DEF CInv, IInv
<1>5. PendingCall(i) \in Instr
  BY <1>3, <1>4, ElementOfSeq, LenProperties DEF PendingCall
<1>6. PendingCall(i).a \in Nat /\ PendingCall(i).c \in Nat
  BY <1>5 DEF Instr
<1>7. \A r \in RegisterOperands(PendingCall(i)) : r < Slots(frames[i].fn)
  BY <1>3, <1>4 DEF WellFormed, PendingCall, CodeOf, Slots
<1>8. PendingCall(i).a \in RegisterOperands(PendingCall(i))
      /\ PendingCall(i).c \in RegisterOperands(PendingCall(i))
  BY <1>3 DEF RegisterOperands, UnaryOp, BinaryOp, IntArith, IntCompare, FloatCompare,
              FloatArith, BitOps
<1>9. Reliable(i) = PendingCall(i).c
  BY <1>1, <1>2, <1>3, <1>6 DEF Reliable
<1> QED
  BY <1>3, <1>6, <1>7, <1>8, <1>9

\* A suspended frame stands for the same activation as long as nothing is
\* written at or above the window of the m-th frame, above it.
LEMMA SuspendedKept ==
  ASSUME CInv, UNCHANGED prog,
         NEW m \in 1..Len(frames), Len(frames') \in Nat, m =< Len(frames'),
         \A j \in 1..m : /\ frames'[j].fn = frames[j].fn
                        /\ frames'[j].base = frames[j].base
                        /\ frames'[j].out = frames[j].out,
         \A x \in 0..(StackCapacity - 1) : x < frames[m].base => stack'[x] = stack[x],
         NEW i \in 1..(m - 1)
  PROVE  ActivationOf(i)' = ActivationOf(i)
<1>1. Len(frames) \in Nat
  BY DEF CInv, IInv, TypeOK
<1>2. /\ i \in 1..m /\ i + 1 \in 1..m /\ i \in 1..(Len(frames) - 1) /\ i + 1 \in 1..Len(frames)
      /\ i \in 1..Len(frames) /\ i # Len(frames) /\ i # Len(frames')
  BY <1>1
<1>3. /\ frames[i].base \in 0..(StackCapacity - 1) /\ frames[m].base \in 0..(StackCapacity - 1)
      /\ frames[i + 1].base =< frames[m].base /\ frames[i + 1].base \in 0..(StackCapacity - 1)
  <2>1. \A j \in 1..Len(frames) : frames[j].base \in 0..(StackCapacity - 1)
    BY FramesTyped
  <2>2. i + 1 =< m
    BY <1>1, <1>2
  <2>3. frames[i + 1].base =< frames[m].base
    BY <1>2, <2>2 DEF CInv, BasesRise
  <2> QED
    BY <1>2, <2>1, <2>3
<1>4. Reliable(i)' = Reliable(i) /\ Reliable(i) = frames[i + 1].base - frames[i].base
  BY <1>2 DEF Reliable
<1>5. \A r \in 0..(Reliable(i) - 1) : stack'[frames[i].base + r] = stack[frames[i].base + r]
  <2>1. SUFFICES ASSUME NEW r \in 0..(Reliable(i) - 1)
        PROVE  stack'[frames[i].base + r] = stack[frames[i].base + r]
    OBVIOUS
  <2> DEFINE low == frames[i].base
             mid == frames[i + 1].base
             top == frames[m].base
  <2>2. /\ low \in 0..(StackCapacity - 1) /\ mid \in 0..(StackCapacity - 1)
        /\ top \in 0..(StackCapacity - 1) /\ mid =< top /\ r \in 0..(mid - low - 1)
    BY <1>3, <1>4, <2>1
  <2>3. low + r \in 0..(StackCapacity - 1) /\ low + r < top
    <3> HIDE DEF low, mid, top
    <3> QED
      BY <2>2, SizeAssumption
  <2> QED
    BY <2>3
<1> QED
  BY <1>2, <1>4, <1>5 DEF ActivationOf, Image

\* There is an activation for each frame after a step, too.
LEMMA NextActivationsOfFrames ==
  ASSUME Len(frames') \in Nat, status' = "running"
  PROVE  /\ Len(Activations') = Len(frames')
         /\ \A i \in 1..Len(frames') : Activations'[i] = ActivationOf(i)'
<1>1. Activations' = [i \in 1..Len(frames') |-> ActivationOf(i)']
  BY DEF Activations
<1> HIDE DEF Activations
<1> QED
  BY <1>1

-----------------------------------------------------------------------------
(***************************************************************************)
(* Every step is one of the contract, or none.                             *)
(***************************************************************************)
\* Moving on computes.
LEMMA MovedComputes ==
  ASSUME CInv, Moved
  PROVE  Contract!Compute
<1>0. PICK n \in Nat \ {0} : n = Len(frames)
  BY RunningFrame DEF Moved, CInv
<1>1. status = "running" /\ status' = "running" /\ Len(frames) = n /\ Len(frames') = n
  BY <1>0 DEF Moved
<1>2. /\ Len(Activations) = n /\ \A i \in 1..n : Activations[i] = ActivationOf(i)
  BY <1>1, ActivationsOfFrames
<1>3. /\ Len(Activations') = n /\ \A i \in 1..n : Activations'[i] = ActivationOf(i)'
  BY <1>1, NextActivationsOfFrames
<1>4. \A i \in 1..(n - 1) : ActivationOf(i)' = ActivationOf(i)
  <2>1. n \in 1..n /\ n =< Len(frames')
    BY <1>1
  <2>2. \A x \in 0..(StackCapacity - 1) : x < frames[n].base => stack'[x] = stack[x]
    BY <1>1 DEF Moved, currentFrame
  <2> QED
    BY <1>1, <2>1, <2>2, SuspendedKept DEF Moved
<1>5. \A i \in 1..(n - 1) : Activations'[i] = Activations[i]
  BY <1>1, <1>2, <1>3, <1>4
<1>6. /\ Activations'[n].fn = Activations[n].fn
      /\ DOMAIN Activations'[n].regs = DOMAIN Activations[n].regs
  <2>1. n \in 1..n
    BY <1>1
  <2>2. /\ Activations[n].fn = frames[n].fn
        /\ DOMAIN Activations[n].regs = 0..(Slots(frames[n].fn) - 1)
    BY <1>1, <1>2, <2>1 DEF ActivationOf, Reliable
  <2>3. Activations'[n] = ActivationOf(n)'
    BY <1>3, <2>1
  <2> QED
    BY <1>1, <2>1, <2>2, <2>3 DEF ActivationOf, Reliable, Moved, Slots, Image
<1> QED
  BY <1>1, <1>2, <1>3, <1>5, <1>6 DEF Contract!Compute, Contract!Below, Contract!Top

\* OP_CALL enters: the arguments are where the new window starts.
LEMMA EnteredEnters ==
  ASSUME CInv, Entered
  PROVE  Contract!Enter
<1>0. PICK n \in Nat \ {0} : n = Len(frames)
  BY EnteredFrames DEF CInv
<1>1. /\ status = "running" /\ status' = "running" /\ currentFrame.ip =< Len(Code)
      /\ UNCHANGED <<prog, stack, result>>
      /\ Ins.op = "CALL" /\ isFunction(Reg(Ins.b)) /\ Image(Reg(Ins.b).as).arity = Ins.d
  BY DEF Entered, At, CallAllowed
<1>2. PICK callee \in Func : callee = Reg(Ins.b).as
  BY <1>1 DEF isFunction
<1>3. /\ Len(frames) = n /\ Len(frames') = n + 1
      /\ Ins.a \in Nat /\ Ins.c \in Nat /\ currentFrame.base \in Nat
      /\ \A i \in 1..n : /\ frames'[i].fn = frames[i].fn
                         /\ frames'[i].base = frames[i].base
                         /\ frames'[i].out = frames[i].out
      /\ frames'[n + 1] = [fn |-> callee, ip |-> 1, base |-> currentFrame.base + Ins.c,
                           out |-> Ins.a]
  BY <1>0, <1>2, EnteredFrames DEF CInv
<1>4. currentFrame = frames[n] /\ frames[n].fn \in Func
  BY <1>0, FramesTyped DEF currentFrame
<1>5. Ins.d \in Nat /\ Slots(frames[n].fn) \in Nat /\ Slots(callee) \in Nat /\ Ins.d =< Slots(callee)
  BY <1>1, <1>2, <1>4, InsTyped, ImagesWellFormed DEF CInv, IInv
<1>6. /\ \A r \in (Ins.c)..(Ins.c + Ins.d - 1) : r < Slots(frames[n].fn)
      /\ Ins.c < Slots(frames[n].fn)
  <2>1. RegisterOperands(Ins) = {Ins.a, Ins.b} \cup (Ins.c)..(Ins.c + Ins.d - 1) \cup {Ins.c}
    BY <1>1 DEF RegisterOperands, UnaryOp, BinaryOp, IntArith, IntCompare, FloatCompare,
                FloatArith, BitOps
  <2>2. \A r \in RegisterOperands(Ins) : r \in Nat => r < Slots(currentFrame.fn)
    BY <1>1, OperandsAreValues DEF CInv
  <2>3. PICK c \in Nat, d \in Nat : c = Ins.c /\ d = Ins.d
    BY <1>3, <1>5
  <2>4. \A r \in c..(c + d - 1) : r \in Nat
    BY <2>3
  <2> QED
    BY <1>3, <1>4, <2>1, <2>2, <2>3, <2>4
<1>7. /\ Len(Activations) = n /\ \A i \in 1..n : Activations[i] = ActivationOf(i)
  BY <1>0, <1>1, ActivationsOfFrames
<1>8. /\ Len(Activations') = n + 1
      /\ \A i \in 1..(n + 1) : Activations'[i] = ActivationOf(i)'
  BY <1>1, <1>3, NextActivationsOfFrames
<1>9. \A i \in 1..(n - 1) : Activations'[i] = Activations[i]
  <2>1. \A i \in 1..(n - 1) : ActivationOf(i)' = ActivationOf(i)
    BY <1>0, <1>1, <1>3, SuspendedKept
  <2> QED
    BY <1>7, <1>8, <2>1
<1>10. /\ Activations[n].fn = frames[n].fn
       /\ Activations[n].regs = [r \in 0..(Slots(frames[n].fn) - 1) |-> stack[frames[n].base + r]]
  <2>1. Activations[n] = ActivationOf(n)
    BY <1>0, <1>7
  <2>2. Reliable(n) = Slots(frames[n].fn)
    BY <1>3 DEF Reliable
  <2> QED
    BY <2>1, <2>2 DEF ActivationOf
<1>11. /\ Activations'[n].fn = frames[n].fn
       /\ Activations'[n].regs = [r \in 0..(Ins.c - 1) |-> stack[frames[n].base + r]]
  <2>1. Activations'[n] = ActivationOf(n)'
    BY <1>8
  <2>2. frames'[n + 1].base = frames[n].base + Ins.c /\ frames'[n].base = frames[n].base
        /\ frames'[n].fn = frames[n].fn
    BY <1>3, <1>4
  <2>3. Reliable(n)' = Ins.c
    BY <1>3, <1>4, <2>2 DEF Reliable
  <2> QED
    BY <1>1, <2>1, <2>2, <2>3 DEF ActivationOf
<1>12. /\ Activations'[n + 1].arity = Ins.d
       /\ Activations'[n + 1].regs =
            [r \in 0..(Slots(callee) - 1) |-> stack[(frames[n].base + Ins.c) + r]]
  <2>1. Activations'[n + 1] = ActivationOf(n + 1)'
    BY <1>8
  <2>2. frames'[n + 1].fn = callee /\ frames'[n + 1].base = frames[n].base + Ins.c
    BY <1>3, <1>4
  <2>3. Reliable(n + 1)' = Slots(callee)
    BY <1>1, <1>3, <2>2 DEF Reliable, Slots, Image
  <2> QED
    BY <1>1, <1>2, <2>1, <2>2, <2>3 DEF ActivationOf, Image
<1>13. \A r \in 0..(Activations'[n + 1].arity - 1) :
         Activations'[n + 1].regs[r] = Activations[n].regs[Ins.c + r]
  <2>1. SUFFICES ASSUME NEW r \in 0..(Ins.d - 1)
        PROVE  Activations'[n + 1].regs[r] = Activations[n].regs[Ins.c + r]
    BY <1>12
  <2>2. r \in 0..(Slots(callee) - 1) /\ Ins.c + r \in 0..(Slots(frames[n].fn) - 1)
    <3>1. PICK c \in Nat, d \in Nat, k \in Nat, l \in Nat :
            c = Ins.c /\ d = Ins.d /\ k = Slots(frames[n].fn) /\ l = Slots(callee)
      BY <1>3, <1>5
    <3>2. d =< l /\ r \in 0..(d - 1) /\ \A q \in c..(c + d - 1) : q < k
      BY <1>5, <1>6, <2>1, <3>1
    <3>3. c + r \in c..(c + d - 1)
      BY <3>2
    <3>4. r \in 0..(l - 1) /\ c + r \in 0..(k - 1)
      BY <3>2, <3>3
    <3> QED
      BY <3>1, <3>4
  <2>3. (frames[n].base + Ins.c) + r = frames[n].base + (Ins.c + r)
    BY <1>3, <1>4
  <2> QED
    BY <1>10, <1>12, <2>2, <2>3
<1>14. Ins.c \in 0..(Slots(frames[n].fn) - 1)
  BY <1>3, <1>5, <1>6
<1>15. Activations'[n].regs = [r \in 0..(Ins.c - 1) |-> Activations[n].regs[r]]
  <2>1. \A r \in 0..(Ins.c - 1) : r \in 0..(Slots(frames[n].fn) - 1)
    BY <1>3, <1>5, <1>6
  <2> QED
    BY <1>10, <1>11, <2>1
<1> QED
  <2>1. Ins.c \in DOMAIN Activations[n].regs
    BY <1>10, <1>14
  <2>2. \E kept \in DOMAIN Activations[n].regs :
          /\ Activations'[n].fn = Activations[n].fn
          /\ Activations'[n].regs = [r \in 0..(kept - 1) |-> Activations[n].regs[r]]
          /\ \A r \in 0..(Activations'[n + 1].arity - 1) :
               Activations'[n + 1].regs[r] = Activations[n].regs[kept + r]
    BY <1>10, <1>11, <1>13, <1>15, <2>1
  <2>3. \A i \in 1..(Len(Activations) - 1) : Activations'[i] = Activations[i]
    BY <1>7, <1>9
  <2> HIDE DEF Activations
  <2> QED
    BY <1>1, <1>7, <1>8, <2>2, <2>3 DEF Contract!Enter, Contract!Below, Contract!Top

\* OP_RETURN leaves: the caller finds what it kept, and the answer.
LEMMA ReturnedLeaves ==
  ASSUME CInv, ReturnToCaller
  PROVE  Contract!Leave
<1>0. PICK n \in Nat \ {0} : n = Len(frames) /\ n > 1
  BY LeftFrames DEF CInv
<1>1. /\ status = "running" /\ status' = "running" /\ UNCHANGED <<prog, result>>
      /\ stack' = [stack EXCEPT ![frames[n - 1].base + currentFrame.out] = Reg(0)]
  BY <1>0 DEF ReturnToCaller, At
<1>2. /\ Len(frames) = n /\ Len(frames') = n - 1
      /\ \A i \in 1..(n - 1) : frames'[i] = frames[i]
  BY <1>0, LeftFrames DEF CInv
<1>3. /\ Len(Activations) = n /\ \A i \in 1..n : Activations[i] = ActivationOf(i)
  BY <1>0, <1>1, ActivationsOfFrames
<1>4. /\ Len(Activations') = n - 1 /\ \A i \in 1..(n - 1) : Activations'[i] = ActivationOf(i)'
  BY <1>0, <1>1, <1>2, NextActivationsOfFrames
<1>5. n - 1 \in 1..(n - 1) /\ n - 1 \in 1..n /\ n \in 1..n /\ (n - 1) + 1 = n /\ n - 1 \in Nat
  BY <1>0
<1>6. PICK caller, base, out, kept, slots :
        /\ caller = frames[n - 1].fn /\ base = frames[n - 1].base /\ out = frames[n].out
        /\ kept = Reliable(n - 1) /\ slots = Slots(caller)
  OBVIOUS
<1>7. /\ base \in 0..(StackCapacity - 1) /\ out \in Nat /\ out < slots
      /\ kept \in Nat /\ kept < slots /\ slots \in Nat /\ base + slots =< StackCapacity
      /\ frames[n].base = base + kept
  <2>1. n - 1 \in 1..(Len(frames) - 1)
    BY <1>2, <1>5
  <2>2. /\ Reliable(n - 1) \in Nat /\ Reliable(n - 1) < Slots(frames[n - 1].fn)
        /\ frames[n].base = frames[n - 1].base + Reliable(n - 1)
        /\ frames[n].out \in Nat /\ frames[n].out < Slots(frames[n - 1].fn)
    BY <1>5, <2>1, ReliableOfSuspended
  <2>3. /\ frames[n - 1].base \in 0..(StackCapacity - 1)
        /\ Slots(frames[n - 1].fn) \in 1..StackCapacity
        /\ frames[n - 1].base + Slots(frames[n - 1].fn) =< StackCapacity
    BY <1>2, <1>5, FramesTyped
  <2> QED
    BY <1>6, <2>2, <2>3, SizeAssumption
<1>8. stack' = [stack EXCEPT ![base + out] = Reg(0)] /\ base + out \in 0..(StackCapacity - 1)
  <2>1. currentFrame.out = out
    BY <1>2, <1>6 DEF currentFrame
  <2> QED
    BY <1>1, <1>6, <1>7, <2>1, SizeAssumption
<1>9. \A i \in 1..(n - 2) : Activations'[i] = Activations[i]
  <2>1. \A x \in 0..(StackCapacity - 1) : x < base => stack'[x] = stack[x]
    BY <1>7, <1>8 DEF CInv, IInv, TypeOK
  <2>2. \A i \in 1..((n - 1) - 1) : ActivationOf(i)' = ActivationOf(i)
    BY <1>1, <1>2, <1>5, <1>6, <2>1, SuspendedKept
  <2>3. \A i \in 1..(n - 2) : i \in 1..((n - 1) - 1) /\ i \in 1..(n - 1) /\ i \in 1..n
    BY <1>0
  <2> QED
    BY <1>3, <1>4, <2>2, <2>3
<1>10. /\ Activations[n - 1].fn = caller
       /\ Activations[n - 1].receiver = out
       /\ Activations[n - 1].regs = [r \in 0..(kept - 1) |-> stack[base + r]]
  <2>1. Activations[n - 1] = ActivationOf(n - 1)
    BY <1>3, <1>5
  <2>2. n - 1 # Len(frames)
    BY <1>0, <1>2
  <2> QED
    BY <1>5, <1>6, <2>1, <2>2 DEF ActivationOf
<1>11. Activations[n].regs[0] = Reg(0)
  <2>1. Activations[n] = ActivationOf(n)
    BY <1>3, <1>5
  <2>2. Reliable(n) = Slots(frames[n].fn)
    BY <1>2 DEF Reliable
  <2>3. Slots(frames[n].fn) \in 1..StackCapacity
    BY <1>2, <1>5, FramesTyped
  <2>4. Activations[n].regs[0] = stack[frames[n].base + 0]
    BY <2>1, <2>2, <2>3, SizeAssumption DEF ActivationOf
  <2> QED
    BY <1>2, <2>4 DEF Reg, currentFrame
<1>12. /\ Activations'[n - 1].fn = caller
       /\ Activations'[n - 1].regs = [r \in 0..(slots - 1) |-> stack'[base + r]]
  <2>1. Activations'[n - 1] = ActivationOf(n - 1)'
    BY <1>4, <1>5
  <2>2. frames'[n - 1] = frames[n - 1]
    BY <1>2, <1>5
  <2>3. Reliable(n - 1)' = slots
    BY <1>1, <1>2, <1>6, <2>2 DEF Reliable, Slots, Image
  <2> QED
    BY <1>6, <2>1, <2>2, <2>3 DEF ActivationOf
<1>13. Activations'[n - 1].regs[out] = Reg(0)
  BY <1>7, <1>8, <1>12 DEF CInv, IInv, TypeOK
<1>14. \A r \in 0..(kept - 1) : r # out => Activations'[n - 1].regs[r] = Activations[n - 1].regs[r]
  <2>1. SUFFICES ASSUME NEW r \in 0..(kept - 1), r # out
        PROVE  Activations'[n - 1].regs[r] = Activations[n - 1].regs[r]
    OBVIOUS
  <2>2. /\ r \in 0..(slots - 1) /\ base + r \in 0..(StackCapacity - 1) /\ base + r # base + out
    BY <1>7, <2>1, SizeAssumption
  <2>3. stack'[base + r] = stack[base + r]
    BY <1>8, <2>2 DEF CInv, IInv, TypeOK
  <2> QED
    BY <1>10, <1>12, <2>1, <2>2, <2>3
<1> QED
  <2>1. /\ Activations'[n - 1].fn = Activations[n - 1].fn
        /\ Activations'[n - 1].regs[Activations[n - 1].receiver] = Activations[n].regs[0]
        /\ \A r \in DOMAIN Activations[n - 1].regs \ {Activations[n - 1].receiver} :
             Activations'[n - 1].regs[r] = Activations[n - 1].regs[r]
    BY <1>10, <1>11, <1>12, <1>13, <1>14
  <2>2. \A i \in 1..((Len(Activations) - 1) - 1) : Activations'[i] = Activations[i]
    BY <1>0, <1>3, <1>9
  <2> HIDE DEF Activations
  <2> QED
    BY <1>0, <1>1, <1>3, <1>4, <2>1, <2>2
       DEF Contract!Leave, Contract!Below, Contract!Top
\* The outermost OP_RETURN answers the host.
LEMMA ReturnedAnswers ==
  ASSUME CInv, ReturnToHost
  PROVE  Contract!Answer
<1>1. /\ status = "running" /\ status' = "ok" /\ Len(frames) = 1 /\ result' = Reg(0)
  BY DEF ReturnToHost, At
<1>2. Activations' = <<>>
  BY <1>1 DEF Activations
<1>3. Len(Activations) = 1 /\ Activations[1] = ActivationOf(1)
  BY <1>1, ActivationsOfFrames
<1>4. Activations[1].regs[0] = Reg(0)
  <2>1. Slots(frames[1].fn) \in 1..StackCapacity
    BY <1>1, FramesTyped
  <2>2. ActivationOf(1).regs[0] = stack[frames[1].base + 0]
    BY <1>1, <2>1, SizeAssumption DEF ActivationOf, Reliable
  <2> QED
    BY <1>1, <1>3, <2>2 DEF Reg, currentFrame
<1> QED
  BY <1>1, <1>2, <1>3, <1>4 DEF Contract!Answer, Contract!Top

\* What the host starts.
LEMMA HostStarts ==
  ASSUME CInv, Host
  PROVE  Contract!Start \/ Contract!Nothing \/ Contract!Abandon
<1>1. HostTurn /\ (Fail \/ \E f \in Func : Execute(f))
  <2>1. CASE \E c \in Script : executeChunk(c)
    BY <2>1, ProgramAssumption DEF executeChunk
  <2>2. CASE \E k \in GlobalKey : executeFunction(k)
    BY <2>2 DEF executeFunction, CInv, IInv, TypeOK
  <2> QED
    BY <2>1, <2>2 DEF Host
<1>2. CASE Fail
  <2>1. status' = "error"
    BY <1>2 DEF Fail, Stop
  <2> QED
    BY <2>1 DEF Activations, Contract!Abandon
<1>3. ASSUME NEW f \in Func, Execute(f)
      PROVE  Contract!Start \/ Contract!Nothing
  <2>1. CASE status' = "ok"
    <3>1. Activations' = <<>>
      BY <2>1 DEF Activations
    <3> QED
      BY <1>1, <2>1, <3>1 DEF HostTurn, Contract!Nothing
  <2>2. CASE /\ frames' = <<[fn |-> f, ip |-> 1, base |-> 0, out |-> 0]>>
             /\ status' = "running"
    <3>1. Len(frames') = 1 /\ frames'[1].fn = f
      BY <2>2
    <3>2. Len(Activations') = 1 /\ Activations'[1] = ActivationOf(1)'
      BY <2>2, <3>1, NextActivationsOfFrames
    <3>3. Activations'[1].fn \in Func
      BY <1>3, <3>1, <3>2 DEF ActivationOf
    <3> QED
      BY <1>1, <2>2, <3>2, <3>3 DEF HostTurn, Contract!Start
  <2> QED
    BY <1>3, <2>1, <2>2 DEF Execute
<1> QED
  BY <1>1, <1>2, <1>3

\* Every step of NikiVM is a step of the contract, or leaves it alone.
LEMMA StepsKeep ==
  ASSUME CInv, [Next]_vars
  PROVE  [Contract!Next]_(Contract!vars)
<1>1. CASE UNCHANGED vars
  <2>1. UNCHANGED <<prog, stack, frames, status, result>>
    BY <1>1 DEF vars
  <2>2. UNCHANGED Activations
    BY <2>1 DEF Activations, ActivationOf, Reliable, Slots, Image
  <2> QED
    BY <2>1, <2>2 DEF Contract!vars
<1>2. CASE Host
  BY <1>2, HostStarts DEF Contract!Next
<1>3. CASE Step
  <2>1. CASE Left
    <3>1. status' \in {"error", "trapped"}
      BY <2>1 DEF Left, Stop
    <3> QED
      BY <3>1 DEF Activations, Contract!Abandon, Contract!Next
  <2> QED
    BY <1>3, <2>1, StepShapes, MovedComputes, EnteredEnters, ReturnedLeaves, ReturnedAnswers
       DEF CInv, Contract!Next
<1> QED
  BY <1>1, <1>2, <1>3 DEF Next

\* The calling convention is kept (OP_CALL and OP_RETURN over one stack): the
\* VM implements activations with registers of their own, for every program,
\* stack size and call depth.
THEOREM KeepsTheContract == Spec => KeepsContract
<1>1. Init => Contract!Init
  BY MadeValues DEF Init, Activations, Contract!Init
<1>2. CInv /\ [Next]_vars => [Contract!Next]_(Contract!vars)
  BY StepsKeep
<1> QED
  BY <1>1, <1>2, StrongInvariance, PTL DEF Spec, KeepsContract, Contract!Spec
=============================================================================
