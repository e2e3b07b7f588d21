------------------------------- MODULE NikiVM --------------------------------
(***************************************************************************)
(* The register VM (class VM, vm.hpp and vm.cpp): one stack of Values on   *)
(* which every call frame maps a window of registers, the call frames, the *)
(* two tables of global symbols, and the fetch-decode-execute loop as one  *)
(* action per opcode.  The stack and the tables outlive an execution: the  *)
(* host runs init chunks and entry functions one after the other on one VM.*)
(*                                                                         *)
(* The opcodes that read or write what a heap object holds (containers,    *)
(* OP_FREE) are actions of NikiHeap, which has the heap: this module alone *)
(* stops at them.  The opcodes of strings and instances are left out.      *)
(*                                                                         *)
(* An instruction is a record [op, a, b, c, d] of its mnemonic and its     *)
(* operands in the order they are encoded, and ip counts instructions: a   *)
(* jump into the middle of an instruction has no counterpart.  An opcode   *)
(* and its _W form, which differ in the width of the constant index, are   *)
(* one mnemonic.                                                           *)
(***************************************************************************)
EXTENDS NikiValue, Sequences

CONSTANTS
  Module,          \* the modules a chunk can belong to
  kInvalidModuleId,\* the module of a VM that has run nothing
  Script,          \* the members of Func the host runs with executeChunk
  Program,         \* the compiled programs the VM may be given
  StackCapacity,   \* VM::stack_capacity, 8192 in the code
  MaxFrames,       \* the limit on call depth, 256 in the code
  DefaultSlots     \* the window of a chunk that declares none, 256

VARIABLES
  prog,            \* the compiled program: a member of Program, never changed
  stack,           \* the register file
  frames,          \* the call frames, the running one last
  globals,         \* GlobalKey -> function
  global_objects,  \* GlobalKey -> struct blueprint
  module_id,       \* current_chunk_module_id_
  status,          \* what the host sees of the last execution
  result           \* the Value it returned, when status = "ok"

vars == <<prog, stack, frames, globals, global_objects, module_id, status, result>>

-----------------------------------------------------------------------------
\* The opcodes run has no implementation for; "UNKNOWN" is any other byte.
Unimplemented == {"INVOKE", "GET_PROPERTY", "SET_PROPERTY", "METHOD", "UNKNOWN"}

Opcode ==
  {"LOAD_CONST", "TRUE", "FALSE", "NIL", "MOVE", "JMP", "LOOP", "JZ", "JNZ",
   "DEFINE_GLOBAL", "GET_GLOBAL", "SET_GLOBAL", "CALL", "RETURN"}
    \cup UnaryOp \cup BinaryOp \cup Unimplemented

\* The opcodes that need the heap.
HeapOp == {"NEW_ARRAY", "PUSH_ARRAY", "GET_ARRAY", "NEW_MAP", "SET_MAP", "FREE"}

Instr == [op : Opcode \cup HeapOp, a : Nat, b : Nat, c : Nat, d : Nat]

\* A Func in a program: an ObjFunction and its Chunk.
FuncImage ==
  [arity : Nat, max_registers : Nat, name_id : NameId, module_id : Module,
   constants : Seq(Value), code : Seq(Instr)]

\* The registers a window spans: what the compiler declared, or the default.
SlotsOf(image) == IF image.max_registers = 0 THEN DefaultSlots ELSE image.max_registers

RegisterOperands(i) ==
  CASE i.op \in {"LOAD_CONST", "GET_GLOBAL", "SET_GLOBAL", "TRUE", "FALSE", "NIL", "JZ", "JNZ"} -> {i.a}
    [] i.op \in UnaryOp \cup {"MOVE"} -> {i.a, i.b}
    [] i.op \in BinaryOp -> {i.a, i.b, i.c}
    [] i.op = "CALL" -> {i.a, i.b} \cup (i.c)..(i.c + i.d - 1) \cup {i.c}
    [] OTHER -> {}

HeapRegisters(i) ==
  CASE i.op \in {"NEW_ARRAY", "NEW_MAP", "FREE"} -> {i.a}
    [] i.op = "PUSH_ARRAY" -> {i.a, i.b}
    [] i.op \in {"GET_ARRAY", "SET_MAP"} -> {i.a, i.b, i.c}
    [] OTHER -> {}

\* The constant an instruction names, as a set: empty when out of range.
ConstantAt(image, index) ==
  {image.constants[k] : k \in {index + 1} \cap DOMAIN image.constants}

\* Where a jump leads when it is taken.
Target(i, k) == CASE i.op = "JMP"  -> k + 1 + i.a
                  [] i.op = "LOOP" -> k + 1 - i.a
                  [] OTHER         -> k + 1 + i.b

\* No run leaves the code: it starts in it, jumps lead into it, and nothing
\* follows its end.
Closed(code) ==
  /\ \A k \in DOMAIN code : code[k].op \in {"JMP", "LOOP", "JZ", "JNZ"} => Target(code[k], k) \in DOMAIN code
  /\ code # <<>>
  /\ code[Len(code)].op \in {"JMP", "LOOP", "RETURN"}

\* What lowering guarantees of a chunk: every operand names a register of its
\* own window (run checks none), a window holds the parameters and fits the
\* stack, OP_DEFINE_GLOBAL names an object and a global access a name.
WellFormed(image) ==
  /\ image \in FuncImage
  /\ SlotsOf(image) \in 1..StackCapacity
  /\ image.arity =< SlotsOf(image)
  /\ \A k \in DOMAIN image.code : LET i == image.code[k] IN
       /\ \A r \in RegisterOperands(i) \cup HeapRegisters(i) : r < SlotsOf(image)
       /\ i.op = "DEFINE_GLOBAL" =>
            \A v \in ConstantAt(image, i.a) : v.type = "Object"
       /\ i.op \in {"GET_GLOBAL", "SET_GLOBAL"} =>
            \A v \in ConstantAt(image, i.b) : isInteger(v) /\ v.as \in NameId

ASSUME SizeAssumption ==
  /\ StackCapacity \in Nat \ {0}
  /\ MaxFrames \in Nat \ {0}
  /\ DefaultSlots \in Nat \ {0}

ASSUME ProgramAssumption ==
  /\ Script \subseteq Func
  /\ \A p \in Program :
       /\ DOMAIN p.func = Func
       /\ \A f \in Func : WellFormed(p.func[f])
       /\ p.struct_name \in [StructDef -> NameId]

-----------------------------------------------------------------------------
ModuleId  == Module \cup {kInvalidModuleId}
GlobalKey == [module_id : ModuleId, name_id : NameId]
CallFrame == [fn : Func, ip : Nat \ {0}, base : 0..(StackCapacity - 1), out : Nat]

Image(f)  == prog.func[f]
CodeOf(f) == Image(f).code
Slots(f)  == SlotsOf(Image(f))

currentFrame == frames[Len(frames)]
Code         == CodeOf(currentFrame.fn)
Ins          == Code[currentFrame.ip]
Reg(r)       == stack[currentFrame.base + r]
At(ops)      == status = "running" /\ currentFrame.ip =< Len(Code) /\ Ins.op \in ops

Key(n)       == [module_id |-> module_id, name_id |-> n]
Put(m, k, x) == [j \in DOMAIN m \cup {k} |-> IF j = k THEN x ELSE m[j]]

-----------------------------------------------------------------------------
(***************************************************************************)
(* How an instruction ends.                                                *)
(***************************************************************************)
JumpTo(n) == frames' = [frames EXCEPT ![Len(frames)].ip = n]
NextIp    == JumpTo(currentFrame.ip + 1)

\* The instruction writes a register of the running window.
SetReg(r, v) ==
  /\ stack' = [stack EXCEPT ![currentFrame.base + r] = v]
  /\ NextIp
  /\ UNCHANGED <<prog, globals, global_objects, module_id, status, result>>

\* The loop is left with an error: nothing is unwound or undone.
Stop(s) ==
  /\ status' = s
  /\ UNCHANGED <<prog, stack, frames, globals, global_objects, module_id, result>>
Fail == Stop("error")

Finish(r, outcome) ==
  \/ outcome \in Value /\ SetReg(r, outcome)
  \/ outcome = Error /\ Fail
  \/ outcome = Trap /\ Stop("trapped")

-----------------------------------------------------------------------------
(***************************************************************************)
(* The opcodes.                                                            *)
(***************************************************************************)
LoadConst ==
  /\ At({"LOAD_CONST"})
  /\ \/ \E v \in ConstantAt(Image(currentFrame.fn), Ins.b) : SetReg(Ins.a, v)
     \/ ConstantAt(Image(currentFrame.fn), Ins.b) = {} /\ Fail

Literal(op) == CASE op = "TRUE"  -> makeBool(TRUE)
                 [] op = "FALSE" -> makeBool(FALSE)
                 [] OTHER        -> makeNil

LoadLiteral == At({"TRUE", "FALSE", "NIL"}) /\ SetReg(Ins.a, Literal(Ins.op))

Move == At({"MOVE"}) /\ SetReg(Ins.a, Reg(Ins.b))

Unary == At(UnaryOp) /\ \E o \in UnaryOutcomes(Ins.op, Reg(Ins.b)) : Finish(Ins.a, o)

Binary ==
  /\ At(BinaryOp)
  /\ \E o \in BinaryOutcomes(Ins.op, Reg(Ins.b), Reg(Ins.c)) : Finish(Ins.a, o)

\* Mutant: a backward jump is not checked against the start of the code.
UncheckedRedirect(n) ==
  \/ /\ n =< Len(Code) + 1
     /\ JumpTo(n)
     /\ UNCHANGED <<prog, stack, globals, global_objects, module_id, status, result>>
  \/ n > Len(Code) + 1 /\ Fail

\* A target is a place in the code or its very end, where the next fetch fails.
Redirect(n) ==
  \/ /\ n \in 1..(Len(Code) + 1)
     /\ JumpTo(n)
     /\ UNCHANGED <<prog, stack, globals, global_objects, module_id, status, result>>
  \/ n \notin 1..(Len(Code) + 1) /\ Fail

Jump == At({"JMP"}) /\ Redirect(currentFrame.ip + 1 + Ins.a)

Loop == At({"LOOP"}) /\ Redirect(currentFrame.ip + 1 - Ins.a)

Taken == IF Ins.op = "JZ" THEN JzFalse(Reg(Ins.a)) ELSE JnzTrue(Reg(Ins.a))

\* Mutant: a branch not taken stays on its instruction.
StuckBranch ==
  /\ At({"JZ", "JNZ"})
  /\ Redirect(currentFrame.ip + (IF Taken THEN Ins.b + 1 ELSE 0))

Branch ==
  /\ At({"JZ", "JNZ"})
  /\ Redirect(currentFrame.ip + 1 + (IF Taken THEN Ins.b ELSE 0))

(***************************************************************************)
(* Global symbols are keyed by the module whose chunk the host started.    *)
(***************************************************************************)
Define(k, o) ==
  \/ /\ o \in Func
     /\ globals' = Put(globals, k, o)
     /\ NextIp
     /\ UNCHANGED <<prog, stack, global_objects, module_id, status, result>>
  \/ /\ o \in StructDef
     /\ global_objects' = Put(global_objects, k, o)
     /\ NextIp
     /\ UNCHANGED <<prog, stack, globals, module_id, status, result>>
  \/ o \in HeapObj /\ Fail

NameOf(o) == IF o \in Func THEN Image(o).name_id
             ELSE IF o \in StructDef THEN prog.struct_name[o] ELSE 0

DefineGlobal ==
  LET constant == ConstantAt(Image(currentFrame.fn), Ins.a) IN
  /\ At({"DEFINE_GLOBAL"})
  /\ \/ \E v \in constant : Define(Key(NameOf(v.as)), v.as)
     \/ constant = {} /\ Fail

\* Mutant: the structs are looked up before the functions.
GetGlobalStructFirst ==
  LET name == ConstantAt(Image(currentFrame.fn), Ins.b) IN
  /\ At({"GET_GLOBAL"})
  /\ \/ \E v \in name : LET k == Key(v.as) IN
          \/ k \in DOMAIN global_objects /\ SetReg(Ins.a, makeObject(global_objects[k]))
          \/ /\ k \notin DOMAIN global_objects
             /\ k \in DOMAIN globals
             /\ SetReg(Ins.a, makeObject(globals[k]))
          \/ k \notin DOMAIN globals \cup DOMAIN global_objects /\ Fail
     \/ name = {} /\ Fail

GetGlobal ==
  LET name == ConstantAt(Image(currentFrame.fn), Ins.b) IN
  /\ At({"GET_GLOBAL"})
  /\ \/ \E v \in name : LET k == Key(v.as) IN
          \/ k \in DOMAIN globals /\ SetReg(Ins.a, makeObject(globals[k]))
          \/ /\ k \notin DOMAIN globals
             /\ k \in DOMAIN global_objects
             /\ SetReg(Ins.a, makeObject(global_objects[k]))
          \/ k \notin DOMAIN globals \cup DOMAIN global_objects /\ Fail
     \/ name = {} /\ Fail

SetGlobal ==
  LET name == ConstantAt(Image(currentFrame.fn), Ins.b) IN
  /\ At({"SET_GLOBAL"})
  /\ \/ \E v \in name :
          \/ Reg(Ins.a).type = "Object" /\ Define(Key(v.as), Reg(Ins.a).as)
          \/ Reg(Ins.a).type # "Object" /\ Fail
     \/ name = {} /\ Fail

(***************************************************************************)
(* Calls slide the window: register 0 of the callee is register c of the   *)
(* caller, so the arguments are not copied.                                *)
(***************************************************************************)
\* Mutant: only the arguments are checked against the stack.
CallAllowedNoWindow(f, argc, newBase) ==
  /\ argc = Image(f).arity
  /\ Len(frames) # MaxFrames
  /\ newBase + argc =< StackCapacity

CallAllowed(f, argc, newBase) ==
  /\ argc = Image(f).arity
  /\ Len(frames) # MaxFrames
  /\ newBase + argc =< StackCapacity
  /\ newBase + Slots(f) =< StackCapacity

\* Mutant: the caller's ip is not stored before its frame is left.
CallWithoutSavedIp ==
  LET callee  == Reg(Ins.b)
      newBase == currentFrame.base + Ins.c
      allowed == isFunction(callee) /\ CallAllowed(callee.as, Ins.d, newBase)
  IN
  /\ At({"CALL"})
  /\ \/ /\ allowed
        /\ frames' = Append(frames,
                            [fn |-> callee.as, ip |-> 1, base |-> newBase, out |-> Ins.a])
        /\ UNCHANGED <<prog, stack, globals, global_objects, module_id, status, result>>
     \/ ~allowed /\ Fail

Call ==
  LET callee  == Reg(Ins.b)
      newBase == currentFrame.base + Ins.c
      allowed == isFunction(callee) /\ CallAllowed(callee.as, Ins.d, newBase)
  IN
  /\ At({"CALL"})
  /\ \/ /\ allowed
        /\ frames' = Append([frames EXCEPT ![Len(frames)].ip = @ + 1],
                            [fn |-> callee.as, ip |-> 1, base |-> newBase, out |-> Ins.a])
        /\ UNCHANGED <<prog, stack, globals, global_objects, module_id, status, result>>
     \/ ~allowed /\ Fail

\* The outermost frame hands its register 0 to the host and stays in frames.
ReturnToHost ==
  /\ At({"RETURN"})
  /\ Len(frames) = 1
  /\ status' = "ok"
  /\ result' = Reg(0)
  /\ NextIp
  /\ UNCHANGED <<prog, stack, globals, global_objects, module_id>>

\* Mutant: the receiver is read after the frame is popped.
ReturnAfterPop ==
  LET caller == frames[Len(frames) - 1] IN
  /\ At({"RETURN"})
  /\ Len(frames) > 1
  /\ frames' = SubSeq(frames, 1, Len(frames) - 1)
  /\ stack' = [stack EXCEPT ![caller.base + caller.out] = Reg(0)]
  /\ UNCHANGED <<prog, globals, global_objects, module_id, status, result>>

ReturnToCaller ==
  LET caller == frames[Len(frames) - 1] IN
  /\ At({"RETURN"})
  /\ Len(frames) > 1
  /\ frames' = SubSeq(frames, 1, Len(frames) - 1)
  /\ stack' = [stack EXCEPT ![caller.base + currentFrame.out] = Reg(0)]
  /\ UNCHANGED <<prog, globals, global_objects, module_id, status, result>>

\* Execution runs off the end of the code, or meets an opcode without a case.
BadFetch ==
  /\ status = "running"
  /\ \/ currentFrame.ip > Len(Code)
     \/ currentFrame.ip =< Len(Code) /\ Ins.op \in Unimplemented
  /\ Fail

-----------------------------------------------------------------------------
(***************************************************************************)
(* What the host does between executions.                                  *)
(***************************************************************************)
HostTurn == status \in {"idle", "ok", "error"}

\* Mutant: the module of the first execution stays the current one.
ExecuteInFirstModule(f) ==
  /\ module_id' = IF module_id = kInvalidModuleId THEN Image(f).module_id ELSE module_id
  /\ result' = makeNil
  /\ \/ CodeOf(f) = <<>> /\ status' = "ok" /\ UNCHANGED frames
     \/ /\ CodeOf(f) # <<>>
        /\ frames' = <<[fn |-> f, ip |-> 1, base |-> 0, out |-> 0]>>
        /\ status' = "running"
  /\ UNCHANGED <<prog, stack, globals, global_objects>>

\* An empty chunk returns nil without touching the frames.
Execute(f) ==
  /\ module_id' = Image(f).module_id
  /\ result' = makeNil
  /\ \/ CodeOf(f) = <<>> /\ status' = "ok" /\ UNCHANGED frames
     \/ /\ CodeOf(f) # <<>>
        /\ frames' = <<[fn |-> f, ip |-> 1, base |-> 0, out |-> 0]>>
        /\ status' = "running"
  /\ UNCHANGED <<prog, stack, globals, global_objects>>

executeChunk(c) == HostTurn /\ Execute(c)

\* executeFunction of what lookupGlobalFunctionById finds, null if nothing.
executeFunction(k) ==
  /\ HostTurn
  /\ \/ k \in DOMAIN globals /\ Execute(globals[k])
     \/ k \notin DOMAIN globals /\ Fail

-----------------------------------------------------------------------------
Init ==
  /\ prog \in Program
  /\ stack = [i \in 0..(StackCapacity - 1) |-> makeNil]
  /\ frames = <<>>
  /\ globals = [k \in {} |-> k]
  /\ global_objects = [k \in {} |-> k]
  /\ module_id = kInvalidModuleId
  /\ status = "idle"
  /\ result = makeNil

Step ==
  \/ LoadConst \/ LoadLiteral \/ Move \/ Unary \/ Binary
  \/ Jump \/ Loop \/ Branch
  \/ DefineGlobal \/ GetGlobal \/ SetGlobal
  \/ Call \/ ReturnToHost \/ ReturnToCaller
  \/ BadFetch

Host ==
  \/ \E c \in Script : executeChunk(c)
  \/ \E k \in GlobalKey : executeFunction(k)

Next == Step \/ Host

Spec == Init /\ [][Next]_vars

\* The loop of run goes on until it returns; the host may never call again.
FairSpec == Spec /\ WF_vars(Step)

-----------------------------------------------------------------------------
(***************************************************************************)
(* Correctness.                                                            *)
(***************************************************************************)
TypeOK ==
  /\ stack \in [0..(StackCapacity - 1) -> Value]
  /\ frames \in Seq(CallFrame)
  /\ DOMAIN globals \subseteq GlobalKey
  /\ \A k \in DOMAIN globals : globals[k] \in Func
  /\ DOMAIN global_objects \subseteq GlobalKey
  /\ \A k \in DOMAIN global_objects : global_objects[k] \in StructDef
  /\ module_id \in ModuleId
  /\ status \in {"idle", "running", "ok", "error", "trapped"}
  /\ result \in Value

\* No register a running or suspended frame can name lies outside the stack,
\* and the call depth keeps its limit.  run itself checks no operand: it rests
\* on the two tests of OP_CALL and on the chunk's declared window.
WindowsInBounds ==
  /\ Len(frames) =< MaxFrames
  /\ \A i \in 1..Len(frames) :
       frames[i].base + Slots(frames[i].fn) =< StackCapacity

\* The call a suspended frame waits for is the instruction behind its ip.
PendingCall(i) == CodeOf(frames[i].fn)[frames[i].ip - 1]

\* Every suspended frame stands behind the OP_CALL that entered the frame
\* above it, which has that call's window, receiver and arity: the answer can
\* only reach the register its own call named, after any nest of calls.
CallChain ==
  \A i \in 1..(Len(frames) - 1) :
    /\ frames[i].ip - 1 \in DOMAIN CodeOf(frames[i].fn)
    /\ PendingCall(i).op = "CALL"
    /\ frames[i + 1].base = frames[i].base + PendingCall(i).c
    /\ frames[i + 1].out = PendingCall(i).a
    /\ Image(frames[i + 1].fn).arity = PendingCall(i).d

\* No run leaves the code it is in: the fetch that comes next finds an
\* instruction, and so will that of every caller when it is returned to.
NeverAstray ==
  status = "running" => \A i \in DOMAIN frames : frames[i].ip \in DOMAIN CodeOf(frames[i].fn)

\* No opcode ends the process, whatever the operands, except a division of the
\* smallest word by -1: every other bad operand is a RUNTIME_ERROR.
TrapOnlyAtMinByMinusOne ==
  status = "trapped" =>
    /\ Ins.op \in {"IDIV", "IMOD"}
    /\ Reg(Ins.b) = makeInt(IntMin)
    /\ Reg(Ins.c) = makeInt(-1)

\* A function without a backward jump ends, one way or the other, however it
\* recurses: the call depth is the only thing that could grow for ever.
LoopFree == \A f \in Func : \A k \in DOMAIN CodeOf(f) : CodeOf(f)[k].op # "LOOP"

LoopFreeRunsEnd == (LoopFree /\ status = "running") ~> status # "running"
=============================================================================
