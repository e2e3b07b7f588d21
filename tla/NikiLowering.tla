----------------------------- MODULE NikiLowering -----------------------------
(***************************************************************************)
(* lower_to_chunk.cpp: the functions of a verified IR become the images    *)
(* the VM executes, and compile_pipeline.cpp: the init chunk that defines  *)
(* them.  The first failure ends the lowering of the module.               *)
(*                                                                         *)
(* An instruction is [op, a, b, c, d] and a jump distance counts           *)
(* instructions, as in the model of the VM.  Registers, arity and argument *)
(* counts have 8 bits and the index of a constant 16; a jump distance that *)
(* has no room in its 16 bits is refused by the code, here not.            *)
(***************************************************************************)
EXTENDS NikiVerifier, NikiValue

MaxByte  == 255
Uint16   == 65536

I(op, a, b, c, d) == [op |-> op, a |-> a, b |-> b, c |-> c, d |-> d]

\* The operand fits a register byte.
requireVReg(operand) == operand.kind = "VReg" /\ operand.value =< MaxByte

\* The constants a Constant may load.  A string literal's payload is the
\* string object allocated for it.
lowerImmediateToValue(operand) ==
  CASE operand.kind = "ImmI64"     -> makeInt(operand.value)
    [] operand.kind = "ImmBool"    -> makeBool(operand.value # 0)
    [] operand.kind = "ImmF64Bits" -> makeFloat(operand.value)
    [] OTHER                       -> makeObject(operand.value)

Immediate == {"ImmI64", "ImmBool", "ImmF64Bits", "StringId"}

mapBinaryOpcode ==
  [Add |-> "IADD", Sub |-> "ISUB", Mul |-> "IMUL", Div |-> "IDIV", Mod |-> "IMOD", Dice |-> "DICE",
   CmpEq |-> "IEQ", CmpNe |-> "INE", CmpLt |-> "ILT", CmpLe |-> "ILE", CmpGt |-> "IGT",
   CmpGe |-> "IGE", LogicAnd |-> "AND", LogicOr |-> "OR"]

\* The opcodes of the other kinds that become one instruction of registers.
mapOtherOpcode ==
  [Move |-> "MOVE", Neg |-> "NEG", LogicNot |-> "NOT", PushArray |-> "PUSH_ARRAY",
   SetMap |-> "SET_MAP", GetIndex |-> "GET_ARRAY", Free |-> "FREE"]

RegisterOpcode(kind) ==
  IF kind \in DOMAIN mapBinaryOpcode THEN mapBinaryOpcode[kind] ELSE mapOtherOpcode[kind]

\* What is lowered of what the builder emits: all but GetMember, whose opcode the
\* VM does not run.
Supported ==
  DOMAIN mapBinaryOpcode \cup DOMAIN mapOtherOpcode
    \cup {"Constant", "LoadGlobal", "NewArray", "NewMap", "Call"} \cup Terminators

-----------------------------------------------------------------------------
\* The operands an instruction encodes as register bytes, in their order.
Registers(i) ==
  CASE i.kind \in {"Constant", "NewArray", "NewMap", "LoadGlobal", "Free"} -> <<i.dst>>
    [] i.kind \in {"Move", "Neg", "LogicNot"} -> <<i.dst, i.a>>
    [] i.kind \in DOMAIN mapBinaryOpcode \cup {"GetIndex"} -> <<i.dst, i.a, i.b>>
    [] i.kind = "PushArray" -> <<i.a, i.b>>
    [] i.kind = "SetMap" -> <<i.a, i.b, i.c>>
    [] i.kind = "Call" -> IF i.b.kind = "Invalid" THEN <<i.dst, i.a>> ELSE <<i.dst, i.a, i.b>>
    [] i.kind = "Branch" -> <<i.a>>
    [] i.kind = "Return" -> IF i.a.kind = "VReg" THEN <<i.a>> ELSE <<>>
    [] OTHER -> <<>>

\* A variable that was declared without a value has a Constant that is refused.
Encodable(i) ==
  /\ i.kind \in Supported
  /\ \A k \in DOMAIN Registers(i) : requireVReg(Registers(i)[k])
  /\ i.kind = "Constant"   => i.a.kind \in Immediate
  /\ i.kind = "LoadGlobal" => i.a.kind = "ImmI64"
  /\ i.kind = "Jump"       => i.a.kind = "BlockId"
  /\ i.kind = "Branch"     => i.b.kind = "BlockId" /\ i.c.kind = "BlockId"

\* Mutant: a return that has moved its value is taken to be done.
MoveOrReturn(r) ==
  IF r # 0 THEN <<I("MOVE", 0, r, 0, 0)>> ELSE <<I("RETURN", 0, 0, 0, 0)>>

\* The value is returned in register 0.  A return of none has register 0 too.
ReturnCode(r) ==
  IF r # 0 THEN <<I("MOVE", 0, r, 0, 0), I("RETURN", 0, 0, 0, 0)>> ELSE <<I("RETURN", 0, 0, 0, 0)>>

\* What one instruction becomes, when constant is the index its constant gets.
\* A jump still holds the block it leads to.
Encode(i, constant) ==
  LET r == [k \in 1..3 |-> IF k \in DOMAIN Registers(i) THEN Registers(i)[k].value ELSE 0] IN
  CASE i.kind = "Constant"   -> <<I("LOAD_CONST", r[1], constant, 0, 0)>>
    [] i.kind = "LoadGlobal" -> <<I("GET_GLOBAL", r[1], constant, 0, 0)>>
    [] i.kind = "NewArray"   -> <<I("NEW_ARRAY", r[1], i.aux % (MaxByte + 1), 0, 0)>>
    [] i.kind = "NewMap"     -> <<I("NEW_MAP", r[1], i.aux % (MaxByte + 1), 0, 0)>>
    [] i.kind = "Call"       -> <<I("CALL", r[1], r[2], r[3], i.aux % (MaxByte + 1))>>
    [] i.kind = "Jump"       -> <<I("JMP", i.a.value, 0, 0, 0)>>
    [] i.kind = "Branch"     -> <<I("JNZ", r[1], i.b.value, 0, 0), I("JMP", i.c.value, 0, 0, 0)>>
    [] i.kind = "Return"     -> ReturnCode(r[1])
    [] OTHER                 -> <<I(RegisterOpcode(i.kind), r[1], r[2], r[3], 0)>>

ConstantOf(i) ==
  CASE i.kind = "Constant"   -> <<lowerImmediateToValue(i.a)>>
    [] i.kind = "LoadGlobal" -> <<makeInt(i.a.value)>>
    [] OTHER -> <<>>

-----------------------------------------------------------------------------
\* The writer of a function: its code, its constants and where its blocks begin.
Blank == [code |-> <<>>, constants |-> <<>>, entry |-> <<>>]

lowerInst(w, i) ==
  [code      |-> w.code \o Encode(i, Len(w.constants) % Uint16),
   constants |-> w.constants \o ConstantOf(i),
   entry     |-> w.entry]

enterBlock(w) == [w EXCEPT !.entry = Append(@, Len(w.code))]

\* Blocks in their order, each entered where its first instruction lands.  A
\* module is lowered after it was verified: no block is empty.
lowerBlock(b, w, block) ==
  LET upTo[k \in 0..block.count] ==
        IF k = 0 THEN enterBlock(w) ELSE lowerInst(upTo[k - 1], b.insts[block.begin + k])
  IN  upTo[block.count]

lowerBlocks(b, func) ==
  LET upTo[n \in 0..func.count] ==
        IF n = 0 THEN Blank ELSE lowerBlock(b, upTo[n - 1], BlockOf(b, func, n))
  IN  upTo[func.count]

\* The distance from behind an instruction to its target.  A jump backwards
\* becomes a LOOP; a branch keeps its opcode, which only leads forwards.  The
\* target of a verified jump is a block that was entered.
Patched(code, entry) ==
  [k \in DOMAIN code |->
     LET i == code[k]
         distance(id) == IF entry[id + 1] < k THEN k - entry[id + 1] ELSE entry[id + 1] - k
     IN  CASE i.op = "JNZ" -> I("JNZ", i.a, distance(i.b), 0, 0)
           [] i.op = "JMP" -> I(IF entry[i.a + 1] < k THEN "LOOP" ELSE "JMP", distance(i.a), 0, 0, 0)
           [] OTHER -> i]

\* Mutant: the window ends one register short.
ShortWindow(b, func, module) ==
  LET w == lowerBlocks(b, func)
  IN  [arity |-> func.arity, max_registers |-> func.next_vreg - 1, name_id |-> func.name,
       module_id |-> module, constants |-> w.constants, code |-> Patched(w.code, w.entry)]

\* A function that declares no register gets the default window of the VM.
lowerOneFunction(b, func, module) ==
  LET w == lowerBlocks(b, func)
  IN  [arity |-> func.arity, max_registers |-> func.next_vreg, name_id |-> func.name,
       module_id |-> module, constants |-> w.constants, code |-> Patched(w.code, w.entry)]

\* No check of a function's lowering fails.
FunctionLowers(b, func) ==
  /\ func.arity =< MaxByte
  /\ \A n \in 1..func.count : \A k \in InstsOf(BlockOf(b, func, n)) : Encodable(b.insts[k])

Lowerable(b) == \A k \in DOMAIN b.funcs : FunctionLowers(b, b.funcs[k])

lowerModuleToChunk(b, module) ==
  [k \in DOMAIN b.funcs |-> lowerOneFunction(b, b.funcs[k], module)]

\* The chunk that defines the module's functions, objects[k] the k-th.
makeInitChunk(objects, module) ==
  [arity |-> 0, max_registers |-> 1, name_id |-> 0, module_id |-> module,
   constants |-> [k \in DOMAIN objects |-> makeObject(objects[k])],
   code |-> Append([k \in DOMAIN objects |-> I("DEFINE_GLOBAL", (k - 1) % Uint16, 0, 0, 0)],
                   I("RETURN", 0, 0, 0, 0))]

collectExports(images) == {images[k].name_id : k \in DOMAIN images}
================================================================================
